---- MODULE Spec2Model ----
(***************************************************************************)
(* Streamlet: the per-run task pipeline (core/task.py), the routing filter *)
(* (core/abstract.py), the flow's transform ordering (core/flow.py) and    *)
(* the Metric/MetricFrame record model the pipeline produces and consumes. *)
(*                                                                         *)
(* Strings are sequences of one-character strings, so that glob matching   *)
(* and splitting on the attribute separator are computed, not assumed.     *)
(* A Python dict is an insertion-ordered sequence of [k, v] entries.       *)
(***************************************************************************)
EXTENDS Integers, Sequences, FiniteSets, TLC

\* ------------------------------------------------------------------ bounds

\* Largest max_retries a task is configured with.
MaxRetries == 2

\* Wall-clock second at which an attempt creates its frame.
Clock == 13

\* Most transforms a flow declares.
MaxTransforms == 2

\* The longest frame the frame operations build.
MaxFrameLen == 2

\* The most records a source result holds when extraction is examined.
MaxRecords == 2

\* The most extension documents a header declares.
MaxExtensions == 2

\* ------------------------------------------------------------------ values

\* A leaf number, a nested mapping, or Python's None.
Num(n) == [t |-> "num", n |-> n, d |-> <<>>]
Map(d) == [t |-> "map", n |-> 0, d |-> d]
NoneV == [t |-> "none", n |-> 0, d |-> <<>>]

\* Settings.nested_attr_seperator
nested_attr_seperator == "."

Front(s) == SubSeq(s, 1, Len(s) - 1)
Last(s) == s[Len(s)]

\* An optional list of the configuration: None, or the list.
None == [set |-> FALSE, items |-> <<>>]
List(items) == [set |-> TRUE, items |-> items]

\* ------------------------------------------------------------------ dict

DKeys(d) == [i \in 1..Len(d) |-> d[i].k]
DHas(d, k) == \E i \in 1..Len(d) : d[i].k = k
DIdx(d, k) == CHOOSE i \in 1..Len(d) : d[i].k = k
DGet(d, k) == d[DIdx(d, k)].v
\* d[k] = v: an existing key keeps its position, a new key goes last.
DSet(d, k, v) ==
    IF DHas(d, k) THEN [d EXCEPT ![DIdx(d, k)].v = v]
    ELSE Append(d, [k |-> k, v |-> v])
\* del d[k]
DDel(d, k) == SelectSeq(d, LAMBDA e : e.k # k)

\* a | b
RECURSIVE DMerge(_, _)
DMerge(a, b) ==
    IF b = <<>> THEN a
    ELSE DMerge(DSet(a, b[1].k, b[1].v), Tail(b))

\* ------------------------------------------------------------------ str

\* sep.join(parts)
RECURSIVE Join(_, _)
Join(parts, sep) ==
    IF parts = <<>> THEN <<>>
    ELSE IF Len(parts) = 1 THEN parts[1]
    ELSE parts[1] \o <<sep>> \o Join(Tail(parts), sep)

\* s.split(sep)
RECURSIVE SplitAcc(_, _, _)
SplitAcc(s, sep, cur) ==
    IF s = <<>> THEN <<cur>>
    ELSE IF Head(s) = sep THEN <<cur>> \o SplitAcc(Tail(s), sep, <<>>)
    ELSE SplitAcc(Tail(s), sep, Append(cur, Head(s)))

Split(s, sep) == SplitAcc(s, sep, <<>>)

\* fnmatch.fnmatch(name, pat) for patterns over literals, "*" and "?".
RECURSIVE fnmatch(_, _)
fnmatch(name, pat) ==
    IF pat = <<>> THEN name = <<>>
    ELSE IF Head(pat) = "*"
        THEN fnmatch(name, Tail(pat)) \/ (name # <<>> /\ fnmatch(Tail(name), pat))
    ELSE /\ name # <<>>
         /\ (Head(pat) = "?" \/ Head(pat) = Head(name))
         /\ fnmatch(Tail(name), Tail(pat))

\* any(fnmatch(name, p) for p in patterns)
AnyMatch(name, patterns) == \E i \in 1..Len(patterns) : fnmatch(name, patterns[i])

\* ------------------------------------------------------------------ trees

\* reduce(operator.getitem, chain, obj): the mapping reached, or a failure
\* (KeyError on a missing key, TypeError on subscripting a number).
RECURSIVE Walk(_, _)
Walk(d, chain) ==
    IF chain = <<>> THEN [ok |-> TRUE, d |-> d]
    ELSE IF DHas(d, chain[1]) /\ DGet(d, chain[1]).t = "map"
        THEN Walk(DGet(d, chain[1]).d, Tail(chain))
    ELSE [ok |-> FALSE, d |-> <<>>]

\* The tree with the entry at a path removed (the path exists).
RECURSIVE TreeDel(_, _)
TreeDel(d, path) ==
    IF Len(path) = 1 THEN DDel(d, path[1])
    ELSE DSet(d, path[1], Map(TreeDel(DGet(d, path[1]).d, Tail(path))))

\* Whether a path of keys leads to an entry of the tree.
TreeHas(d, path) ==
    /\ path # <<>>
    /\ Walk(d, Front(path)).ok
    /\ DHas(Walk(d, Front(path)).d, Last(path))

TreeGet(d, path) == DGet(Walk(d, Front(path)).d, Last(path))

\* core.helpers.flatten with sep=None: the leaves in iteration order, each
\* under the tuple of keys that leads to it; an empty mapping has no leaf.
RECURSIVE flatten(_, _)
flatten(mapping, chain) ==
    IF mapping = <<>> THEN <<>>
    ELSE LET e == mapping[1]
             k_chain == Append(chain, e.k)
             here == IF e.v.t = "map" THEN flatten(e.v.d, k_chain)
                     ELSE <<[k |-> k_chain, v |-> e.v]>>
         IN DMerge(here, flatten(Tail(mapping), chain))

\* ------------------------------------------------------------------ metric

\* The metric_name of a metric-less entry ({None: None} in process_result).
NoneKey == <<"None">>

\* The tree with path set to v, creating the mappings on the way; a number on
\* the way is replaced by a mapping.
RECURSIVE TreeSet(_, _, _)
TreeSet(d, path, v) ==
    IF Len(path) = 1 THEN DSet(d, path[1], v)
    ELSE LET child == IF DHas(d, path[1]) /\ DGet(d, path[1]).t = "map"
                      THEN DGet(d, path[1]).d ELSE <<>>
         IN DSet(d, path[1], Map(TreeSet(child, Tail(path), v)))

\* Metric(parent, attributes, metric, metric_field_name)
Metric(parent, attributes, metric, metric_field_name) ==
    [parent |-> parent, attributes |-> attributes, metric |-> metric,
     metric_field_name |-> metric_field_name]

\* Metric.validate(): a value is present unless Settings.allow_none_metric.
MetricValid(m, allow_none_metric) == m.metric.t # "none" \/ allow_none_metric

\* metric[key] = value. The owning frame being frozen, the write fails and
\* the Metric is unchanged; the metric's own field name addresses the value,
\* any other key is un-flattened into the attributes.
MetricSetItem(m, parent_frozen, key, value) ==
    IF parent_frozen THEN [ok |-> FALSE, m |-> m]
    ELSE IF key = m.metric_field_name THEN [ok |-> TRUE, m |-> [m EXCEPT !.metric = value]]
    ELSE [ok |-> TRUE,
          m |-> [m EXCEPT !.attributes =
                    TreeSet(m.attributes, Split(key, nested_attr_seperator), value)]]

\* Whether the attributes hold the key a Metric's value is named by: as a
\* top-level key or as the nested path the name flattens.
AttributesHoldField(m) ==
    \/ DHas(m.attributes, m.metric_field_name)
    \/ TreeHas(m.attributes, Split(m.metric_field_name, nested_attr_seperator))

\* ------------------------------------------------------------------ frame

\* MetricFrame(name): empty, mutable, stamped with the current time.
MetricFrame(id, name, now) ==
    [id |-> id, name |-> name, creation_timestamp |-> now, metrics |-> <<>>,
     frozen |-> FALSE]

\* An append that does not look at the frozen flag.
FrameAppendUnguarded(f, m, allow_none_metric) ==
    IF ~MetricValid(m, allow_none_metric) THEN [ok |-> FALSE, f |-> f]
    ELSE [ok |-> TRUE, f |-> [f EXCEPT !.metrics = Append(@, m)]]

\* frame.append(metric)
FrameAppend(f, m, allow_none_metric) ==
    IF f.frozen \/ ~MetricValid(m, allow_none_metric) THEN [ok |-> FALSE, f |-> f]
    ELSE [ok |-> TRUE, f |-> [f EXCEPT !.metrics = Append(@, m)]]

\* frame[:] = metrics: the whole range is replaced; an entry without a value
\* is dropped (with an error logged) unless the setting allows it.
FrameSetSlice(f, ms, allow_none_metric) ==
    IF f.frozen THEN [ok |-> FALSE, f |-> f]
    ELSE [ok |-> TRUE,
          f |-> [f EXCEPT !.metrics =
                    SelectSeq(ms, LAMBDA m : MetricValid(m, allow_none_metric))]]

\* frame.creation_timestamp = ts
FrameSetTimestamp(f, ts) ==
    IF f.frozen THEN [ok |-> FALSE, f |-> f]
    ELSE [ok |-> TRUE, f |-> [f EXCEPT !.creation_timestamp = ts]]

\* frame.freeze()
FrameFreeze(f) == [f EXCEPT !.frozen = TRUE]

\* frame.copy(): a new mutable frame over the same Metrics, which stay
\* owned by the frame they were created for.
FrameCopy(f, id) == [f EXCEPT !.id = id, !.frozen = FALSE]

\* ------------------------------------------------------------------ extraction

\* One key matched by a pattern, left in the pool of keys after it is yielded.
ExtractKeyKept(st, key) ==
    LET parts == Split(key, nested_attr_seperator)
        nested == Walk(st.obj, Front(parts))
    IN IF ~st.ok THEN st
       ELSE IF ~nested.ok \/ ~DHas(nested.d, Last(parts)) THEN [st EXCEPT !.ok = FALSE]
       ELSE [obj |-> TreeDel(st.obj, parts),
             keys |-> st.keys,
             out |-> DSet(st.out, key, DGet(nested.d, Last(parts))),
             ok |-> TRUE]

\* One key matched by a pattern: key.split(sep), reduce(getitem, chain, obj),
\* nested.pop(top), yield, del keys[key]. A failed lookup raises.
ExtractKey(st, key) ==
    LET parts == Split(key, nested_attr_seperator)
        nested == Walk(st.obj, Front(parts))
    IN IF ~st.ok THEN st
       ELSE IF ~nested.ok \/ ~DHas(nested.d, Last(parts)) THEN [st EXCEPT !.ok = FALSE]
       ELSE [obj |-> TreeDel(st.obj, parts),
             keys |-> DDel(st.keys, key),
             out |-> DSet(st.out, key, DGet(nested.d, Last(parts))),
             ok |-> TRUE]

RECURSIVE ExtractKeys(_, _)
ExtractKeys(st, matched) ==
    IF matched = <<>> THEN st
    ELSE ExtractKeys(ExtractKey(st, matched[1]), Tail(matched))

\* for pattern in fields: for key in fnmatch.filter(list(keys.keys()), pattern)
RECURSIVE ExtractPatterns(_, _)
ExtractPatterns(st, fields) ==
    IF fields = <<>> THEN st
    ELSE LET names == DKeys(st.keys)
             matched == SelectSeq(names, LAMBDA k : fnmatch(k, fields[1]))
         IN ExtractPatterns(ExtractKeys(st, matched), Tail(fields))

\* keys = {sep.join(path): path for path in flatten(obj).keys()}
RECURSIVE JoinedKeys(_)
JoinedKeys(flat) ==
    IF flat = <<>> THEN <<>>
    ELSE DMerge(<<[k |-> Join(flat[1].k, nested_attr_seperator), v |-> flat[1].k]>>,
                JoinedKeys(Tail(flat)))

\* dict(self.extract_metrics(obj, sep, fields)): the metrics found, the
\* record without them, and whether extraction raised.
extract_metrics(obj, fields) ==
    ExtractPatterns([obj |-> obj, keys |-> JoinedKeys(flatten(obj, <<>>)),
                     out |-> <<>>, ok |-> TRUE], fields)

\* The Metrics of one record, a record without a matched key giving none.
RecordMetricsMatchedOnly(parent, obj, res_conf, static_attributes) ==
    LET ex == extract_metrics(obj, res_conf.metrics)
    IN [ok |-> ex.ok,
        ms |-> [i \in 1..Len(ex.out) |->
                   Metric(parent, DMerge(ex.obj, static_attributes),
                          ex.out[i].v, ex.out[i].k)]]

\* The Metrics one record contributes to the queue.
RecordMetrics(parent, obj, res_conf, static_attributes) ==
    LET ex == extract_metrics(obj, res_conf.metrics)
        attr == res_conf.attributes
        frame == IF ~attr.set THEN ex.obj
                 ELSE SelectSeq(ex.obj, LAMBDA e : \E i \in 1..Len(attr.items) :
                                                      attr.items[i] = e.k)
        metrics == IF ex.out = <<>> THEN <<[k |-> NoneKey, v |-> NoneV]>> ELSE ex.out
    IN [ok |-> ex.ok,
        ms |-> [i \in 1..Len(metrics) |->
                   Metric(parent, DMerge(frame, static_attributes),
                          metrics[i].v, metrics[i].k)]]

RECURSIVE QueueOf(_, _, _, _)
QueueOf(parent, result, res_conf, static_attributes) ==
    IF result = <<>> THEN [ok |-> TRUE, ms |-> <<>>]
    ELSE LET one == RecordMetrics(parent, result[1], res_conf, static_attributes)
             rest == QueueOf(parent, Tail(result), res_conf, static_attributes)
         IN [ok |-> one.ok /\ rest.ok, ms |-> one.ms \o rest.ms]

\* process_result(data, result): data[:] = list(queue), unless a record raised.
process_result(data, result, conf, allow_none_metric) ==
    LET q == QueueOf(data.id, result, conf.result, conf.static_attributes)
    IN IF ~q.ok THEN [ok |-> FALSE, f |-> data]
       ELSE FrameSetSlice(data, q.ms, allow_none_metric)

\* ------------------------------------------------------------------ routing

\* AbstractModule.enabled, overridden by AbstractOutput.enabled.
Enabled(mod, disable_outputs) ==
    IF mod.category = "output" THEN mod.enabled /\ ~disable_outputs ELSE mod.enabled

\* AbstractProcessor.accepts_from(input_name, task_name, ignore_enabled)
accepts_from(mod, input_name, task_name, ignore_enabled, disable_outputs) ==
    IF ~Enabled(mod, disable_outputs) /\ ~ignore_enabled THEN FALSE
    ELSE IF mod.include_inputs.set /\ ~AnyMatch(input_name, mod.include_inputs.items)
        THEN FALSE
    ELSE IF mod.exclude_inputs.set /\ AnyMatch(input_name, mod.exclude_inputs.items)
        THEN FALSE
    ELSE IF mod.include_tasks.set /\ ~AnyMatch(task_name, mod.include_tasks.items)
        THEN FALSE
    ELSE IF mod.exclude_tasks.set /\ AnyMatch(task_name, mod.exclude_tasks.items)
        THEN FALSE
    ELSE TRUE

\* [m for m in modules if m.accepts_from(input_name, task_name)]
Accepted(modules, input_name, task_name, disable_outputs) ==
    SelectSeq(modules,
              LAMBDA m : accepts_from(m, input_name, task_name, FALSE, disable_outputs))

\* An unstable sort: an element goes before the elements of its own
\* priority.
RECURSIVE InsertByPriorityUnstable(_, _)
InsertByPriorityUnstable(sorted, t) ==
    IF sorted = <<>> THEN <<t>>
    ELSE IF sorted[1].priority > t.priority
        THEN <<sorted[1]>> \o InsertByPriorityUnstable(Tail(sorted), t)
    ELSE <<t>> \o sorted

\* list.sort(key=priority, reverse=True) is stable: an element goes behind
\* every element whose priority is not lower than its own.
RECURSIVE InsertByPriority(_, _)
InsertByPriority(sorted, t) ==
    IF sorted = <<>> THEN <<t>>
    ELSE IF sorted[1].priority >= t.priority
        THEN <<sorted[1]>> \o InsertByPriority(Tail(sorted), t)
    ELSE <<t>> \o sorted

RECURSIVE SortedFrom(_, _)
SortedFrom(sorted, rest) ==
    IF rest = <<>> THEN sorted
    ELSE SortedFrom(InsertByPriority(sorted, rest[1]), Tail(rest))

\* The transforms left in declaration order.
SortTransformsNot(declared_list) == declared_list

\* self.transforms.sort(key=lambda t: t.priority, reverse=True)
SortTransforms(declared_list) == SortedFrom(<<>>, declared_list)

\* AbstractIO.modify(data): the creation timestamp, bucketed and shifted.
ModifiedTimestamp(modifiers, timestamp) ==
    LET bucketed == IF modifiers.time_modulus # 0
                    THEN timestamp - (timestamp % modifiers.time_modulus)
                    ELSE timestamp
    IN IF modifiers.time_offset # 0 THEN bucketed - modifiers.time_offset ELSE bucketed

modify(mod, data) ==
    FrameSetTimestamp(data, ModifiedTimestamp(mod.modifiers, data.creation_timestamp))

\* ------------------------------------------------------------------ modules

\* What a processor does to the frame it is called with: the bodies of
\* KeyMapping (metric[result_field] = ...), SimpleFilter (data[:] = kept),
\* and of a processor that appends or clears.
ParentFrozen(m, f, orig) == IF m.parent = f.id THEN f.frozen ELSE orig.frozen

RunOp(op, f, orig, allow_none_metric) ==
    CASE op.kind = "setitem" ->
            LET rs == [i \in 1..Len(f.metrics) |->
                          MetricSetItem(f.metrics[i], ParentFrozen(f.metrics[i], f, orig),
                                        op.key, op.value)]
                ok == \A i \in 1..Len(rs) : rs[i].ok
            IN [ok |-> ok,
                f |-> IF ok THEN [f EXCEPT !.metrics = [i \in 1..Len(rs) |-> rs[i].m]]
                      ELSE f]
      [] op.kind = "drop_first" ->
            IF f.metrics = <<>> THEN [ok |-> TRUE, f |-> f]
            ELSE FrameSetSlice(f, Tail(f.metrics), allow_none_metric)
      [] op.kind = "append" ->
            FrameAppend(f, Metric(f.id, <<[k |-> <<"a">>, v |-> Num(6)]>>, Num(5), <<"m">>),
                        allow_none_metric)
      [] op.kind = "clear" -> FrameSetSlice(f, <<>>, allow_none_metric)
      [] OTHER -> [ok |-> TRUE, f |-> f]

NoOp == [kind |-> "noop", key |-> <<>>, value |-> NoneV]
SetItem(key, value) == [kind |-> "setitem", key |-> key, value |-> value]
Op(kind) == [kind |-> kind, key |-> <<>>, value |-> NoneV]

NoModifiers == [time_modulus |-> 1, time_offset |-> 0]

Module(category, name, op) ==
    [category |-> category, name |-> name, enabled |-> TRUE, priority |-> 0,
     include_inputs |-> None, exclude_inputs |-> None,
     include_tasks |-> None, exclude_tasks |-> None,
     modifiers |-> NoModifiers, op |-> op]

\* The transforms a flow may declare.
TransformPool ==
    { [Module("transform", <<"k", "m">>, SetItem(<<"m">>, Num(7))) EXCEPT !.priority = 5],
      [Module("transform", <<"s", "f">>, Op("drop_first")) EXCEPT
          !.priority = 5, !.include_tasks = List(<< <<"f", "o", "*">> >>)],
      [Module("transform", <<"c", "t">>, SetItem(<<"n", ".", "y">>, Num(8))) EXCEPT
          !.priority = -5],
      [Module("transform", <<"o", "f", "f">>, Op("append")) EXCEPT !.enabled = FALSE] }

\* The outputs a flow may declare, in pool order.
Output1 ==
    [Module("output", <<"o", "1">>, Op("append")) EXCEPT
        !.modifiers = [time_modulus |-> 5, time_offset |-> 0]]
Output2 ==
    [Module("output", <<"o", "2">>, Op("clear")) EXCEPT
        !.modifiers = [time_modulus |-> 1, time_offset |-> 2],
        !.exclude_tasks = List(<< <<"b", "a", "r">> >>)]
OutputLists == { <<>>, <<Output1, Output2>>, <<Output2, Output1>> }

\* The source module of the task.
Input ==
    [Module("input", <<"i", "n">>, NoOp) EXCEPT
        !.modifiers = [time_modulus |-> 10, time_offset |-> 0]]

Entry(k, v) == [k |-> k, v |-> v]

\* The tasks: the configuration (name, result.metrics, result.attributes,
\* static_attributes) and the results its source may return.
TaskFoo ==
    [name |-> <<"f", "o", "o">>,
     result |-> [metrics |-> << <<"m">> >>, attributes |-> None],
     static_attributes |-> <<>>,
     results |-> { <<>>,
                   << <<Entry(<<"m">>, Num(1)), Entry(<<"a">>, Num(2))>> >>,
                   << <<Entry(<<"m">>, Num(1)), Entry(<<"a">>, Num(2))>>,
                      <<Entry(<<"a">>, Num(3))>> >> }]
TaskBar ==
    [name |-> <<"b", "a", "r">>,
     result |-> [metrics |-> << <<"n", ".", "*">>, <<"*", "x">> >>,
                 attributes |-> List(<< <<"a">>, <<"n">> >>)],
     static_attributes |-> <<Entry(<<"s">>, Num(4))>>,
     results |-> { << <<Entry(<<"n">>, Map(<<Entry(<<"x">>, Num(1)), Entry(<<"y">>, Num(2))>>)),
                       Entry(<<"a">>, Num(3)), Entry(<<"b">>, Num(4))>> >>,
                   << <<Entry(<<"n", ".", "x">>, Num(1))>> >>,
                   << <<Entry(<<"a">>, Num(3))>> >> }]
TaskFooStatic ==
    [name |-> <<"f", "o", "o", "2">>,
     result |-> [metrics |-> << <<"m">> >>, attributes |-> None],
     static_attributes |-> <<Entry(<<"m">>, Num(9))>>,
     results |-> { << <<Entry(<<"m">>, Num(1)), Entry(<<"a">>, Num(2))>> >> }]
Tasks == {TaskFoo, TaskBar, TaskFooStatic}

\* Every order of every choice of at most MaxTransforms pool members.
DeclaredLists ==
    { d \in UNION { [1..n -> TransformPool] : n \in 0..MaxTransforms } :
        \A i, j \in DOMAIN d : i # j => d[i].name # d[j].name }

\* ------------------------------------------------------------------ state

VARIABLES
    max_retries,    \* the task class's max_retries
    task,           \* the task's configuration
    settings,       \* Settings.allow_none_metric, Settings.disable_outputs
    declared,       \* configuration["transform"], in declaration order
    transforms,     \* flow.transforms
    outputs,        \* flow.outputs
    state,          \* the run's state as its observers see it
    pc,             \* where the current attempt stands
    retries,        \* request.retries
    exec_count,     \* invocations of streamlet_exec in this run
    last_module,    \* request.metadata["last_module"]
    static_data,    \* the attempt's frame
    finished_data,  \* the copy the last sink was called with, as it left it
    received,       \* the copy the last sink was called with, as it got it
    frozen_data,    \* the frame as freeze() left it
    pending,        \* the accepted modules still to call in the running loop
    calls,          \* the modules called in this attempt, in order
    exc,            \* the exception the attempt raised
    operand,        \* the arguments of the operation under evaluation
    step,           \* how far its loop has come
    returned        \* what it returned or raised

conf == <<max_retries, task, settings, declared, transforms, outputs>>
vars == <<max_retries, task, settings, declared, transforms, outputs, state, pc,
          retries, exec_count, last_module, static_data, finished_data, received,
          frozen_data, pending, calls, exc, operand, step, returned>>

\* The variables of an operation evaluated on its own, and their value
\* while none is.
call == <<operand, step, returned>>
NoCall == operand = <<>> /\ step = 0 /\ returned = <<>>

\* The variables of a task's run.
pipeline ==
    <<conf, state, pc, retries, exec_count, last_module, static_data, finished_data,
      received, frozen_data, pending, calls, exc>>

NoFrame == MetricFrame(0, <<>>, 0)

Init ==
    /\ max_retries \in 0..MaxRetries
    /\ task \in Tasks
    /\ settings \in [allow_none_metric : BOOLEAN, disable_outputs : BOOLEAN]
    /\ declared \in DeclaredLists
    /\ transforms = SortTransforms(declared)
    /\ outputs \in IF settings.disable_outputs THEN {<<Output1, Output2>>} ELSE OutputLists
    /\ state = "PENDING"
    /\ pc = "idle"
    /\ retries = 0
    /\ exec_count = 0
    /\ last_module = <<>>
    /\ static_data = NoFrame
    /\ finished_data = NoFrame
    /\ received = NoFrame
    /\ frozen_data = NoFrame
    /\ pending = <<>>
    /\ calls = <<>>
    /\ exc = "none"
    /\ NoCall

\* ------------------------------------------------------------------ run

Call(kind, name) == [kind |-> kind, name |-> name]

\* One copy made before the loop and handed to every output.
SinkInputShared(static, previous, mod, id) ==
    modify(mod, IF previous.id # 0 THEN previous ELSE FrameCopy(static, id))

\* finished_data = static_data.copy(); mod.modify(finished_data)
SinkInput(static, previous, mod, id) == modify(mod, FrameCopy(static, id))

\* The budget counted one attempt too long.
ExhaustedLate(request_retries, limit) == request_retries > limit

\* self.retry(throw=False, exc=e): the attempt number the retry would get
\* exceeds max_retries, and the exception is raised as the run's failure.
Exhausted(request_retries, limit) == request_retries + 1 > limit

\* No check of the frame's length.
SkipsNever(data) == FALSE

\* if len(static_data) == 0: return States.SKIPPED
Skips(data) == Len(data.metrics) = 0

\* The TaskPredicate clause missing, or behind the Exception clause.
IsControlNever(e) == FALSE

\* except TaskPredicate as e: raise e
IsControl(e) == e = "control"

\* before_start: a worker picks the run (or its retry) up.
BeforeStart ==
    /\ state \in {"PENDING", "RETRYING"}
    /\ pc = "idle"
    /\ state' = "RUNNING"
    /\ pc' = "exec"
    /\ last_module' = <<"<None>">>
    /\ calls' = <<>>
    /\ static_data' = NoFrame
    /\ finished_data' = NoFrame
    /\ received' = NoFrame
    /\ frozen_data' = NoFrame
    /\ pending' = <<>>
    /\ exc' = "none"
    /\ UNCHANGED <<call, conf, retries, exec_count>>

\* streamlet_exec up to the transform loop: the frame, the source call,
\* process_result and the SKIPPED return.
Fetch ==
    /\ pc = "exec"
    /\ exec_count' = exec_count + 1
    /\ last_module' = Input.name
    /\ calls' = <<Call("input", Input.name)>>
    /\ LET data == modify(Input, MetricFrame(0, task.name, Clock)).f
       IN \/ \E kind \in {"error", "control"} :
                /\ exc' = kind
                /\ pc' = "raised"
                /\ static_data' = data
                /\ UNCHANGED pending
          \/ \E result \in task.results :
                LET r == process_result(data, result, task, settings.allow_none_metric)
                IN /\ static_data' = r.f
                   /\ IF ~r.ok
                      THEN exc' = "error" /\ pc' = "raised" /\ UNCHANGED pending
                      ELSE IF Skips(r.f)
                      THEN exc' = exc /\ pc' = "return_skipped" /\ UNCHANGED pending
                      ELSE /\ exc' = exc
                           /\ pc' = "transforms"
                           /\ pending' = Accepted(transforms, Input.name, task.name,
                                                  settings.disable_outputs)
    /\ UNCHANGED <<call, conf, state, retries, finished_data, received, frozen_data>>

\* The transform loop with a raising transform's exception caught and the
\* loop carried on.
TransformSwallowing ==
    /\ pc = "transforms"
    /\ pending # <<>>
    /\ LET mod == Head(pending)
           r == RunOp(mod.op, static_data, static_data, settings.allow_none_metric)
       IN /\ last_module' = mod.name
          /\ calls' = Append(calls, Call("transform", mod.name))
          /\ pending' = Tail(pending)
          /\ \/ r.ok /\ static_data' = r.f /\ UNCHANGED exc
             \/ \E kind \in {"error", "control"} : exc' = kind /\ static_data' = static_data
    /\ UNCHANGED <<call, conf, state, pc, retries, exec_count, finished_data, received, frozen_data>>

\* The transform loop without the record of the module about to be called.
TransformUnrecorded ==
    /\ pc = "transforms"
    /\ pending # <<>>
    /\ LET mod == Head(pending)
           r == RunOp(mod.op, static_data, static_data, settings.allow_none_metric)
       IN /\ calls' = Append(calls, Call("transform", mod.name))
          /\ \/ /\ r.ok
                /\ static_data' = r.f
                /\ pending' = Tail(pending)
                /\ UNCHANGED <<pc, exc>>
             \/ \E kind \in {"error", "control"} :
                /\ exc' = kind
                /\ pc' = "raised"
                /\ static_data' = static_data
                /\ pending' = <<>>
    /\ UNCHANGED <<call, conf, state, retries, exec_count, last_module, finished_data,
                   received, frozen_data>>

\* One pass of the transform loop: mod(static_data).
Transform ==
    /\ pc = "transforms"
    /\ pending # <<>>
    /\ LET mod == Head(pending)
           r == RunOp(mod.op, static_data, static_data, settings.allow_none_metric)
       IN /\ last_module' = mod.name
          /\ calls' = Append(calls, Call("transform", mod.name))
          /\ \/ /\ r.ok
                /\ static_data' = r.f
                /\ pending' = Tail(pending)
                /\ UNCHANGED <<pc, exc>>
             \/ \E kind \in {"error", "control"} :
                /\ exc' = kind
                /\ pc' = "raised"
                /\ static_data' = static_data
                /\ pending' = <<>>
    /\ UNCHANGED <<call, conf, state, retries, exec_count, finished_data, received, frozen_data>>

\* The step from the transform loop to the output loop without freeze().
FreezeForgotten ==
    /\ pc = "transforms"
    /\ pending = <<>>
    /\ frozen_data' = static_data
    /\ pending' = Accepted(outputs, Input.name, task.name, settings.disable_outputs)
    /\ pc' = "sinks"
    /\ UNCHANGED <<call, conf, state, retries, exec_count, last_module, static_data,
                   finished_data, received, calls, exc>>

\* static_data.freeze(), and the outputs that accept the task.
Freeze ==
    /\ pc = "transforms"
    /\ pending = <<>>
    /\ static_data' = FrameFreeze(static_data)
    /\ frozen_data' = FrameFreeze(static_data)
    /\ calls' = Append(calls, Call("freeze", <<>>))
    /\ pending' = Accepted(outputs, Input.name, task.name, settings.disable_outputs)
    /\ pc' = "sinks"
    /\ UNCHANGED <<call, conf, state, retries, exec_count, last_module, finished_data, received, exc>>

\* One pass of the output loop: copy, modify, mod(finished_data).
Sink ==
    /\ pc = "sinks"
    /\ pending # <<>>
    /\ LET mod == Head(pending)
           given == SinkInput(static_data, finished_data, mod, Len(calls))
           r == RunOp(mod.op, given.f, static_data, settings.allow_none_metric)
       IN /\ last_module' = mod.name
          /\ IF ~given.ok
             THEN /\ exc' = "error"
                  /\ pc' = "raised"
                  /\ pending' = <<>>
                  /\ UNCHANGED <<calls, received, finished_data>>
             ELSE /\ calls' = Append(calls, Call("output", mod.name))
                  /\ received' = given.f
                  /\ \/ /\ r.ok
                        /\ finished_data' = r.f
                        /\ pending' = Tail(pending)
                        /\ UNCHANGED <<pc, exc>>
                     \/ \E kind \in {"error", "control"} :
                        /\ exc' = kind
                        /\ pc' = "raised"
                        /\ finished_data' = given.f
                        /\ pending' = <<>>
    /\ UNCHANGED <<call, conf, state, retries, exec_count, static_data, frozen_data>>

\* streamlet_exec returns its code and run() hands it on.
Return ==
    /\ \/ pc = "return_skipped" /\ state' = "SKIPPED"
       \/ pc = "sinks" /\ pending = <<>> /\ state' = "FINISHED"
    /\ pc' = "idle"
    /\ UNCHANGED <<call, conf, retries, exec_count, last_module, static_data, finished_data,
                   received, frozen_data, pending, calls, exc>>

\* run() catches what streamlet_exec raised: a TaskPredicate is raised on,
\* anything else asks for a retry, which fails the run once the budget is spent.
Except ==
    /\ pc = "raised"
    /\ pc' = "idle"
    /\ IF IsControl(exc)
       THEN state' = "PROPAGATED" /\ UNCHANGED retries
       ELSE IF Exhausted(retries, max_retries)
       THEN state' = "FAILED" /\ UNCHANGED retries
       ELSE state' = "RETRYING" /\ retries' = retries + 1
    /\ UNCHANGED <<call, conf, exec_count, last_module, static_data, finished_data,
                   received, frozen_data, pending, calls, exc>>

Next == BeforeStart \/ Fetch \/ Transform \/ Freeze \/ Sink \/ Return \/ Except

Spec == Init /\ [][Next]_vars

\* Every call returns or raises, and the scheduler re-dispatches a retry.
FairSpec == Spec /\ WF_vars(Next)

\* ------------------------------------------------------------------ frame operations

\* A frame driven by its own interface, one operation at a time: calls holds
\* the last operation, pending its argument, exc the error it raised.

FrameMetrics ==
    { Metric(1, <<Entry(<<"a">>, Num(2))>>, Num(1), <<"m">>),
      Metric(1, <<Entry(<<"a">>, Num(4))>>, NoneV, NoneKey) }

FrameSlices == UNION { [1..n -> FrameMetrics] : n \in 0..MaxFrameLen }

FrameKeys == { <<"m">>, <<"b">> }

FrameInit ==
    /\ max_retries = 0
    /\ task = TaskFoo
    /\ settings \in [allow_none_metric : BOOLEAN, disable_outputs : {FALSE}]
    /\ declared = <<>>
    /\ transforms = <<>>
    /\ outputs = <<>>
    /\ state = "PENDING"
    /\ pc = "frame"
    /\ retries = 0
    /\ exec_count = 0
    /\ last_module = <<>>
    /\ static_data = MetricFrame(1, task.name, 0)
    /\ finished_data = NoFrame
    /\ received = NoFrame
    /\ frozen_data = NoFrame
    /\ pending = <<>>
    /\ calls = <<>>
    /\ exc = "none"
    /\ NoCall

FrameError(ok, was_frozen) ==
    IF ok THEN "none" ELSE IF was_frozen THEN "TypeError" ELSE "ValueError"

FrameDone(kind, args, r) ==
    /\ static_data' = r.f
    /\ calls' = <<Call(kind, <<>>)>>
    /\ pending' = args
    /\ exc' = FrameError(r.ok, static_data.frozen)
    /\ UNCHANGED <<call, conf, state, pc, retries, exec_count, last_module, received,
                   frozen_data>>

\* frame.append(Metric(frame, attributes, metric, metric_field))
FrameOpAppend ==
    /\ pc = "frame"
    /\ Len(static_data.metrics) < MaxFrameLen
    /\ \E m \in FrameMetrics :
          FrameDone("append", <<m>>, FrameAppend(static_data, m, settings.allow_none_metric))
    /\ UNCHANGED finished_data

\* frame[:] = metrics
FrameOpSetSlice ==
    /\ pc = "frame"
    /\ \E ms \in FrameSlices :
          FrameDone("setslice", ms, FrameSetSlice(static_data, ms, settings.allow_none_metric))
    /\ UNCHANGED finished_data

\* frame[i][key] = 3
FrameOpSetItem ==
    /\ pc = "frame"
    /\ \E i \in 1..Len(static_data.metrics), key \in FrameKeys :
          LET r == MetricSetItem(static_data.metrics[i], static_data.frozen, key, Num(3))
          IN FrameDone("setitem", <<>>,
                       [ok |-> r.ok, f |-> [static_data EXCEPT !.metrics[i] = r.m]])
    /\ UNCHANGED finished_data

\* frame.freeze()
FrameOpFreeze ==
    /\ pc = "frame"
    /\ FrameDone("freeze", <<>>, [ok |-> TRUE, f |-> FrameFreeze(static_data)])
    /\ UNCHANGED finished_data

\* copy = frame.copy(), of the frozen frame as the sink loop takes it
FrameOpCopy ==
    /\ pc = "frame"
    /\ static_data.frozen
    /\ FrameDone("copy", <<>>, [ok |-> TRUE, f |-> static_data])
    /\ finished_data' = FrameCopy(static_data, 2)

FrameNext ==
    FrameOpAppend \/ FrameOpSetSlice \/ FrameOpSetItem \/ FrameOpFreeze \/ FrameOpCopy

FrameSpec == FrameInit /\ [][FrameNext]_vars

\* ------------------------------------------------------------------ extraction runs

\* process_result applied once to a source result, for a range of result
\* configurations: task holds the configuration and (as its only possible
\* result) the records, static_data the frame, exc whether it raised.

ExtractRecords ==
    { <<Entry(<<"a">>, Num(1)), Entry(<<"b">>, Num(2)), Entry(<<"c">>, Num(3))>>,
      <<Entry(<<"a", "b">>, Num(1)), Entry(<<"a">>, Num(2))>>,
      <<Entry(<<"n">>, Map(<<Entry(<<"y">>, Num(1)), Entry(<<"z">>, Num(2))>>)),
        Entry(<<"c">>, Num(3))>>,
      <<Entry(<<"c">>, Num(3))>> }

ExtractPatternLists ==
    { <<>>,
      << <<"a">>, <<"b">> >>,
      << <<"b">>, <<"a">> >>,
      << <<"a", "*">>, <<"a">> >>,
      << <<"a">>, <<"a", "*">> >>,
      << <<"*">> >>,
      << <<"n", ".", "y">> >>,
      << <<"n", ".", "*">>, <<"?">> >> }

ExtractTasks ==
    { [name |-> <<"e", "x">>,
       result |-> [metrics |-> fields, attributes |-> attr],
       static_attributes |-> static,
       results |-> {result}] :
         fields \in ExtractPatternLists,
         attr \in {None, List(<< <<"c">> >>)},
         static \in { <<>>, <<Entry(<<"s">>, Num(4))>>, <<Entry(<<"a">>, Num(9))>> },
         result \in UNION { [1..n -> ExtractRecords] : n \in 0..MaxRecords } }

ExtractInit ==
    /\ max_retries = 0
    /\ task \in ExtractTasks
    /\ settings \in [allow_none_metric : BOOLEAN, disable_outputs : {FALSE}]
    /\ declared = <<>>
    /\ transforms = <<>>
    /\ outputs = <<>>
    /\ state = "PENDING"
    /\ pc = "extract"
    /\ retries = 0
    /\ exec_count = 0
    /\ last_module = <<>>
    /\ static_data = MetricFrame(0, task.name, Clock)
    /\ finished_data = NoFrame
    /\ received = NoFrame
    /\ frozen_data = NoFrame
    /\ pending = <<>>
    /\ calls = <<>>
    /\ exc = "none"
    /\ NoCall

\* self.process_result(static_data, result)
ExtractResult ==
    /\ pc = "extract"
    /\ \E result \in task.results :
          LET r == process_result(static_data, result, task, settings.allow_none_metric)
          IN /\ static_data' = r.f
             /\ exc' = IF r.ok THEN "none" ELSE "error"
    /\ pc' = "extracted"
    /\ UNCHANGED <<call, conf, state, retries, exec_count, last_module, finished_data, received,
                   frozen_data, pending, calls>>

ExtractNext == ExtractResult

ExtractSpec == ExtractInit /\ [][ExtractNext]_vars

\* ------------------------------------------------------------------ routing calls

\* No task running, the operation named by at being evaluated on its own.
NoRun(at) ==
    /\ max_retries = 0
    /\ task = TaskFoo
    /\ settings = [allow_none_metric |-> FALSE, disable_outputs |-> FALSE]
    /\ declared = <<>>
    /\ transforms = <<>>
    /\ outputs = <<>>
    /\ state = "PENDING"
    /\ pc = at
    /\ retries = 0
    /\ exec_count = 0
    /\ last_module = <<>>
    /\ static_data = NoFrame
    /\ finished_data = NoFrame
    /\ received = NoFrame
    /\ frozen_data = NoFrame
    /\ pending = <<>>
    /\ calls = <<>>
    /\ exc = "none"

Foobar == <<"f", "o", "o", "b", "a", "r">>
FoobarExtra == Foobar \o <<"_", "e", "x", "t", "r", "a">>

\* Processors with every combination of filters, and the calls made on them.
RouteModules ==
    { [Module(category, <<"p">>, NoOp) EXCEPT
          !.enabled = enabled,
          !.include_inputs = ii, !.exclude_inputs = ei,
          !.include_tasks = it, !.exclude_tasks = et] :
        category \in {"transform", "output"},
        enabled \in BOOLEAN,
        ii \in {None, List(<< <<"i", "n">> >>), List(<< <<"x", "*">>, <<"e", "?">> >>)},
        ei \in {None, List(<< <<"i", "n">> >>)},
        it \in {None, List(<< <<"f", "o", "o", "*">> >>)},
        et \in {None, List(<<Foobar>>), List(<<>>)} }

RouteCalls ==
    [mod : RouteModules,
     input_name : { <<"i", "n">>, <<"e", "x">> },
     task_name : {Foobar, FoobarExtra, <<"b", "a", "r">>},
     ignore_enabled : BOOLEAN,
     disable_outputs : BOOLEAN]

\* The i-th check of accepts_from with every pattern list read as unset.
RejectsEnabledOnly(i, c) ==
    i = 1 /\ ~Enabled(c.mod, c.disable_outputs) /\ ~c.ignore_enabled

\* Whether the i-th check of accepts_from returns False.
Rejects(i, c) ==
    CASE i = 1 -> ~Enabled(c.mod, c.disable_outputs) /\ ~c.ignore_enabled
      [] i = 2 -> c.mod.include_inputs.set
                    /\ ~AnyMatch(c.input_name, c.mod.include_inputs.items)
      [] i = 3 -> c.mod.exclude_inputs.set
                    /\ AnyMatch(c.input_name, c.mod.exclude_inputs.items)
      [] i = 4 -> c.mod.include_tasks.set
                    /\ ~AnyMatch(c.task_name, c.mod.include_tasks.items)
      [] i = 5 -> c.mod.exclude_tasks.set
                    /\ AnyMatch(c.task_name, c.mod.exclude_tasks.items)

RouteInit ==
    /\ NoRun("accepts_from")
    /\ operand \in RouteCalls
    /\ step = 0
    /\ returned = <<>>

\* One check of accepts_from: return False, go on, or return True after the
\* last one.
RouteCheck ==
    /\ pc = "accepts_from"
    /\ returned = <<>>
    /\ step < 5
    /\ step' = step + 1
    /\ returned' = IF Rejects(step + 1, operand) THEN <<FALSE>>
                   ELSE IF step + 1 = 5 THEN <<TRUE>> ELSE <<>>
    /\ UNCHANGED <<operand, pipeline>>

RouteNext == RouteCheck

RouteSpec == RouteInit /\ [][RouteNext]_vars

\* ------------------------------------------------------------------ extensions

\* A list of a configuration document.
Lst(items) == [t |-> "list", n |-> 0, d |-> items]

\* bool(value) of a configuration value.
Truthy(v) ==
    CASE v.t = "num" -> v.n # 0
      [] v.t = "none" -> FALSE
      [] OTHER -> v.d # <<>>

\* isinstance(item, dict) and (name := item.get("name"))
NamedItem(item) ==
    item.t = "map" /\ DHas(item.d, <<"name">>) /\ Truthy(DGet(item.d, <<"name">>))

Raised == [ok |-> FALSE, v |-> NoneV]
Value(v) == [ok |-> TRUE, v |-> v]

\* The first index of a list at which a test holds, 0 if there is none.
FirstIndex(items, Test(_)) ==
    IF \E i \in 1..Len(items) : Test(items[i])
    THEN CHOOSE i \in 1..Len(items) :
            Test(items[i]) /\ \A j \in 1..(i - 1) : ~Test(items[j])
    ELSE 0

RECURSIVE extend(_, _)

\* One item of an extension list appended whatever its name.
ExtendItemAppended(base, item) ==
    IF base.t = "list" THEN Value(Lst(Append(base.d, item))) ELSE Raised

\* One pass of "for item in extension": the named item is merged into the
\* first base item of its name, any other item is appended. Reading the name
\* of a base item that is no mapping, or appending to a base that is no
\* list, raises.
ExtendItem(base, item) ==
    IF base.t # "list" THEN Raised
    ELSE IF ~NamedItem(item) THEN Value(Lst(Append(base.d, item)))
    ELSE LET name == DGet(item.d, <<"name">>)
             bad == FirstIndex(base.d, LAMBDA b : b.t # "map")
             hit == FirstIndex(base.d, LAMBDA b : b.t = "map" /\ DHas(b.d, <<"name">>)
                                                   /\ DGet(b.d, <<"name">>) = name)
         IN IF hit # 0 /\ (bad = 0 \/ hit < bad)
            THEN LET r == extend(base.d[hit], item)
                 IN IF r.ok THEN Value(Lst([base.d EXCEPT ![hit] = r.v])) ELSE Raised
            ELSE IF bad # 0 THEN Raised
            ELSE Value(Lst(Append(base.d, item)))

RECURSIVE ExtendList(_, _)
ExtendList(base, items) ==
    IF items = <<>> THEN Value(base)
    ELSE LET r == ExtendItem(base, items[1])
         IN IF r.ok THEN ExtendList(r.v, Tail(items)) ELSE Raised

\* for k, v in extension.items(): base[k] = extend(base.get(k, {}), v)
RECURSIVE ExtendDict(_, _)
ExtendDict(base, entries) ==
    IF entries = <<>> THEN Value(base)
    ELSE IF base.t # "map" THEN Raised
    ELSE LET k == entries[1].k
             r == extend(IF DHas(base.d, k) THEN DGet(base.d, k) ELSE Map(<<>>),
                         entries[1].v)
         IN IF r.ok THEN ExtendDict(Map(DSet(base.d, k, r.v)), Tail(entries)) ELSE Raised

\* extend(base, extension) of load_extensions
extend(base, extension) ==
    CASE extension.t = "list" -> ExtendList(base, extension.d)
      [] extension.t = "map" -> ExtendDict(base, extension.d)
      [] OTHER -> Value(extension)

\* Settings.extend(configuration.get("flow", {}).get("settings", {}))
SettingsExtend(current, configuration) ==
    LET flow == IF DHas(configuration.d, <<"flow">>)
                THEN DGet(configuration.d, <<"flow">>) ELSE Map(<<>>)
        given == IF flow.t = "map" /\ DHas(flow.d, <<"settings">>)
                 THEN DGet(flow.d, <<"settings">>) ELSE Map(<<>>)
    IN IF given.t = "map" /\ DHas(given.d, <<"allow_none_metric">>)
       THEN [current EXCEPT
                !.allow_none_metric = Truthy(DGet(given.d, <<"allow_none_metric">>))]
       ELSE current

\* Configuration documents: module lists under "input", a scalar under "x",
\* settings under flow.settings.
Named(n, rest) == Map(<<Entry(<<"name">>, Num(n))>> \o rest)
HeaderSettings(v) ==
    Entry(<<"flow">>, Map(<<Entry(<<"settings">>,
                                  Map(<<Entry(<<"allow_none_metric">>, Num(v))>>))>>))

BaseDocuments ==
    { Map(<<Entry(<<"input">>, Lst(<<Named(1, <<>>), Named(2, <<>>)>>)),
            Entry(<<"x">>, Num(5))>>),
      Map(<<HeaderSettings(0),
            Entry(<<"input">>, Lst(<<Named(1, <<Entry(<<"x">>, Num(4))>>), Named(2, <<>>)>>))>>),
      Map(<<Entry(<<"x">>, Num(5))>>) }

ExtensionDocuments ==
    { Map(<<Entry(<<"input">>, Lst(<<Named(1, <<Entry(<<"x">>, Num(1))>>), Named(3, <<>>)>>))>>),
      Map(<<Entry(<<"input">>, Lst(<<Named(2, <<Entry(<<"x">>, Num(2))>>),
                                     Map(<<Entry(<<"y">>, Num(9))>>)>>)),
            Entry(<<"x">>, Num(6))>>),
      Map(<<Entry(<<"x">>, Num(7)), HeaderSettings(1)>>),
      Map(<<Entry(<<"x">>, Num(8)),
            Entry(<<"input">>, Lst(<<Named(1, <<Entry(<<"x">>, Num(3))>>)>>))>>),
      Map(<<>>) }

\* The flow under construction: operand holds the base document and the
\* documents of the declared extension files, returned self.configuration,
\* step the number of extension files gone through, calls the positions (in
\* the declared list) of the files merged so far, in order.
MergeInit ==
    /\ NoRun("header")
    /\ operand \in [configuration : BaseDocuments,
                    extends : UNION { [1..n -> ExtensionDocuments] : n \in 0..MaxExtensions }]
    /\ step = 0
    /\ returned = operand.configuration

\* The header read with the validated header, defaults filled in, stored as
\* the configuration.
ReadHeaderStoringDefaults ==
    /\ pc = "header"
    /\ pc' = IF operand.extends # <<>> THEN "extensions" ELSE "validate"
    /\ settings' = SettingsExtend(settings, returned)
    /\ returned' = Map(DSet(returned.d, <<"flow">>,
                            Map(<<Entry(<<"extends">>, Lst(<<>>)),
                                  Entry(<<"settings">>, Map(<<>>))>>)))
    /\ UNCHANGED <<operand, step, max_retries, task, declared, transforms, outputs, state,
                   retries, exec_count, last_module, static_data, finished_data, received,
                   frozen_data, pending, calls, exc>>

\* StreamletFlow.__init__ up to the extensions: the header's settings are
\* applied; load_extensions is entered if the header declares any.
ReadHeader ==
    /\ pc = "header"
    /\ pc' = IF operand.extends # <<>> THEN "extensions" ELSE "validate"
    /\ settings' = SettingsExtend(settings, returned)
    /\ UNCHANGED <<call, max_retries, task, declared, transforms, outputs, state, retries,
                   exec_count, last_module, static_data, finished_data, received,
                   frozen_data, pending, calls, exc>>

\* One pass of the loop taking the extension files in their declared order.
LoadExtensionForward ==
    /\ pc = "extensions"
    /\ LET at == step + 1
           template == operand.extends[at]
           r == extend(returned, template)
           last == step + 1 = Len(operand.extends)
       IN /\ step' = step + 1
          /\ IF ~Truthy(template)
             THEN /\ pc' = IF last THEN "validate" ELSE "extensions"
                  /\ UNCHANGED <<returned, settings, calls, exc>>
             ELSE IF ~r.ok
             THEN /\ pc' = "raised"
                  /\ exc' = "error"
                  /\ UNCHANGED <<returned, settings, calls>>
             ELSE /\ pc' = IF last THEN "validate" ELSE "extensions"
                  /\ returned' = r.v
                  /\ settings' = SettingsExtend(settings, r.v)
                  /\ calls' = Append(calls, at)
                  /\ UNCHANGED exc
    /\ UNCHANGED <<operand, max_retries, task, declared, transforms, outputs, state,
                   retries, exec_count, last_module, static_data, finished_data, received,
                   frozen_data, pending>>

\* One pass of "for path in reversed(extension_paths)".
LoadExtension ==
    /\ pc = "extensions"
    /\ LET at == Len(operand.extends) - step
           template == operand.extends[at]
           r == extend(returned, template)
           last == step + 1 = Len(operand.extends)
       IN /\ step' = step + 1
          /\ IF ~Truthy(template)
             THEN /\ pc' = IF last THEN "validate" ELSE "extensions"
                  /\ UNCHANGED <<returned, settings, calls, exc>>
             ELSE IF ~r.ok
             THEN /\ pc' = "raised"
                  /\ exc' = "error"
                  /\ UNCHANGED <<returned, settings, calls>>
             ELSE /\ pc' = IF last THEN "validate" ELSE "extensions"
                  /\ returned' = r.v
                  /\ settings' = SettingsExtend(settings, r.v)
                  /\ calls' = Append(calls, at)
                  /\ UNCHANGED exc
    /\ UNCHANGED <<operand, max_retries, task, declared, transforms, outputs, state,
                   retries, exec_count, last_module, static_data, finished_data, received,
                   frozen_data, pending>>

\* self.configuration = validate(self.configuration, FlowSchema())
ValidateFlow ==
    /\ pc = "validate"
    /\ pc' = "validated"
    /\ UNCHANGED <<call, conf, state, retries, exec_count, last_module, static_data,
                   finished_data, received, frozen_data, pending, calls, exc>>

MergeNext == ReadHeader \/ LoadExtension \/ ValidateFlow

MergeSpec == MergeInit /\ [][MergeNext]_vars

\* ------------------------------------------------------------------ environment variables

\* EnvironmentVar(max_depth=16)
max_depth_default == 16

\* A string as its pieces: literal characters and ${name} references.
Lit(c) == [ref |-> FALSE, s |-> c]
Ref(name) == [ref |-> TRUE, s |-> name]

\* os.path.expandvars(value): one pass, every reference to a variable that
\* is set replaced by the variable's value, any other piece left as it is.
RECURSIVE expandvars(_, _)
expandvars(value, environ) ==
    IF value = <<>> THEN <<>>
    ELSE LET piece == value[1]
             here == IF piece.ref /\ piece.s \in DOMAIN environ /\ environ[piece.s].set
                     THEN environ[piece.s].items ELSE <<piece>>
         IN here \o expandvars(Tail(value), environ)

\* The depth check that never raises.
DepthNeverReached(max_depth) == FALSE

\* if max_depth < 0: raise ValueInvalid
DepthReached(max_depth) == max_depth < 0

EnvValues ==
    { <<Lit("x")>>, <<Ref("A")>>, <<Ref("B")>>, <<Lit("x"), Ref("A")>>, <<Ref("B"), Lit("y")>> }

EnvStrings ==
    EnvValues \cup { <<Ref("C")>>, <<Lit("a"), Ref("A"), Ref("B")>>, <<>> }

\* EnvironmentVar()(value) in an environment: operand holds the environment,
\* the value passed in and the value of the current call, step the calls
\* made before it.
ExpandInit ==
    /\ NoRun("expand")
    /\ \E environ \in [{"A", "B"} -> {None} \cup {List(v) : v \in EnvValues}],
          value \in EnvStrings :
          operand = [environ |-> environ, value |-> value, current |-> value]
    /\ step = 0
    /\ returned = <<>>

\* One call of EnvironmentVar.__call__(value, max_depth).
ExpandCall ==
    /\ pc = "expand"
    /\ returned = <<>>
    /\ exc = "none"
    /\ LET max_depth == max_depth_default - step
           new == expandvars(operand.current, operand.environ)
       IN IF DepthReached(max_depth)
          THEN exc' = "ValueInvalid" /\ UNCHANGED <<call>>
          ELSE IF new = operand.current
          THEN returned' = <<operand.current>> /\ UNCHANGED <<operand, step, exc>>
          ELSE /\ operand' = [operand EXCEPT !.current = new]
               /\ step' = step + 1
               /\ UNCHANGED <<returned, exc>>
    /\ UNCHANGED <<conf, state, pc, retries, exec_count, last_module, static_data,
                   finished_data, received, frozen_data, pending, calls>>

ExpandNext == ExpandCall

ExpandSpec == ExpandInit /\ [][ExpandNext]_vars

\* Every call that is started returns or raises.
ExpandFairSpec == ExpandSpec /\ WF_vars(ExpandNext)

\* ------------------------------------------------------------------ durations

\* The most tokens one duration string is built from.
MaxTokens == 3

Digits == {"0", "1", "2", "3", "4", "5", "6", "7", "8", "9"}
DigitValue(c) ==
    CASE c = "0" -> 0 [] c = "1" -> 1 [] c = "2" -> 2 [] c = "3" -> 3 [] c = "4" -> 4
      [] c = "5" -> 5 [] c = "6" -> 6 [] c = "7" -> 7 [] c = "8" -> 8 [] c = "9" -> 9

\* [a-zA-Z] over the letters the strings below are written in.
Letters == {"d", "h", "m", "s", "x", "H"}

\* str.lower()
LowerChar(c) ==
    CASE c = "H" -> "h" [] c = "P" -> "p" [] c = "T" -> "t" [] OTHER -> c
Lower(s) == [i \in 1..Len(s) |-> LowerChar(s[i])]

\* str.isdigit(): every character a digit, and at least one character.
IsDigit(s) == s # <<>> /\ \A i \in 1..Len(s) : s[i] \in Digits

\* value.removeprefix("-")
RemovePrefix(s, prefix) == IF s # <<>> /\ s[1] = prefix THEN Tail(s) ELSE s

\* value.replace(old, "", 1)
RECURSIVE RemoveFirst(_, _)
RemoveFirst(s, old) ==
    IF s = <<>> THEN <<>>
    ELSE IF Head(s) = old THEN Tail(s)
    ELSE <<Head(s)>> \o RemoveFirst(Tail(s), old)

\* The number a string of digits denotes ("" taken as 0).
RECURSIVE DigitsValue(_)
DigitsValue(s) ==
    IF s = <<>> THEN 0
    ELSE 10 * DigitsValue(SubSeq(s, 1, Len(s) - 1)) + DigitValue(s[Len(s)])

\* Numbers are kept in thousandths of a second: int(value) of an optionally
\* signed digit string.
IntOf(value) ==
    LET digits == RemovePrefix(value, "-")
    IN (IF digits = value THEN 1 ELSE -1) * 1000 * DigitsValue(digits)

\* float(value) of an optionally signed digit string with one ".", for at
\* most three digits after the ".".
FloatOf(value) ==
    LET unsigned == RemovePrefix(value, "-")
        parts == Split(unsigned, ".")
        whole == parts[1]
        frac == parts[2]
        thousandths == CASE Len(frac) = 0 -> 0
                         [] Len(frac) = 1 -> 100 * DigitsValue(frac)
                         [] Len(frac) = 2 -> 10 * DigitsValue(frac)
                         [] OTHER -> DigitsValue(SubSeq(frac, 1, 3))
    IN (IF unsigned = value THEN 1 ELSE -1) * (1000 * DigitsValue(whole) + thousandths)

\* factors = {"ms": 0.001, "s": 1, "m": 60, "h": 3600, "d": 86400}, in
\* thousandths.
factors ==
    << Entry(<<"m", "s">>, 1), Entry(<<"s">>, 1000), Entry(<<"m">>, 60000),
       Entry(<<"h">>, 3600000), Entry(<<"d">>, 86400000) >>

\* The last index of the run of digits that starts at i.
RECURSIVE DigitRunEnd(_, _)
DigitRunEnd(s, i) ==
    IF i < Len(s) /\ s[i + 1] \in Digits THEN DigitRunEnd(s, i + 1) ELSE i

\* The last index of the run of letters that starts at i.
RECURSIVE LetterRunEnd(_, _)
LetterRunEnd(s, i) ==
    IF i < Len(s) /\ s[i + 1] \in Letters THEN LetterRunEnd(s, i + 1) ELSE i

\* re.search(r"(\d+)([a-zA-Z]+)", s): the leftmost place where a run of
\* digits is followed by a letter; the groups are the digits from there and
\* the letters that follow them.
Search(s) ==
    LET starts == { i \in 1..Len(s) :
                      /\ s[i] \in Digits
                      /\ DigitRunEnd(s, i) < Len(s)
                      /\ s[DigitRunEnd(s, i) + 1] \in Letters }
    IN IF starts = {} THEN [ok |-> FALSE, val |-> <<>>, unit |-> <<>>]
       ELSE LET i == CHOOSE a \in starts : \A b \in starts : a <= b
                j == DigitRunEnd(s, i)
            IN [ok |-> TRUE, val |-> SubSeq(s, i, j),
                unit |-> SubSeq(s, j + 1, LetterRunEnd(s, j + 1))]

\* The body of the loop over t_parts: the result after the parts, or a
\* raise at the first part that has no match or an unknown unit.
RECURSIVE SumParts(_, _)
SumParts(t_parts, result) ==
    IF t_parts = <<>> THEN [ok |-> TRUE, ms |-> result]
    ELSE IF t_parts[1] = <<>> THEN SumParts(Tail(t_parts), result)
    ELSE LET match == Search(Lower(t_parts[1]))
         IN IF ~match.ok \/ ~DHas(factors, match.unit)
            THEN [ok |-> FALSE, ms |-> 0]
            ELSE SumParts(Tail(t_parts),
                          result + DigitsValue(match.val) * DGet(factors, match.unit))

\* value.startswith(prefix)
StartsWith(value, prefix) == value # <<>> /\ value[1] = prefix

\* TimeToSeconds.__call__(value) for a string.
TimeToSeconds(value) ==
    IF IsDigit(RemovePrefix(value, "-")) THEN [ok |-> TRUE, ms |-> IntOf(value)]
    ELSE IF IsDigit(RemoveFirst(RemovePrefix(value, "-"), "."))
        THEN [ok |-> TRUE, ms |-> FloatOf(value)]
    ELSE LET sum == SumParts(Split(value, ":"), 0)
         IN IF ~sum.ok THEN sum
            ELSE [ok |-> TRUE,
                  ms |-> IF StartsWith(value, "-") THEN -sum.ms ELSE sum.ms]

\* One token of a duration string: its text, and for a token of the form
\* <number><unit> the number, as n / den, and the unit it is written with.
Token(number, n, den, unit) ==
    [text |-> number \o unit, token |-> TRUE, n |-> n, den |-> den, unit |-> unit]
Part(text) == [text |-> text, token |-> FALSE, n |-> 0, den |-> 1, unit |-> <<>>]

DurationTokens ==
    { Token(<<"1">>, 1, 1, <<"h">>), Token(<<"3", "0">>, 30, 1, <<"m">>),
      Token(<<"1", "5">>, 15, 1, <<"s">>), Token(<<"2">>, 2, 1, <<"m", "s">>),
      Token(<<"1">>, 1, 1, <<"d">>), Token(<<"5">>, 5, 1, <<"x">>),
      Token(<<"1", ".", "5">>, 3, 2, <<"h">>),
      Part(<<>>), Part(<<"5", "h", "7", "x">>),
      Part(<<"1", "H">>), Part(<<"x">>) }

\* A literal: its text and the number it denotes, in thousandths.
Literal(text, ms) == [literal |-> TRUE, text |-> text, ms |-> ms, neg |-> FALSE, tokens |-> <<>>]

DurationLiterals ==
    { Literal(<<"5">>, 5000), Literal(<<"-", "5">>, -5000),
      Literal(<<"2", ".", "5">>, 2500), Literal(<<"-", "2", ".", "5">>, -2500),
      Literal(<<"1", "2">>, 12000), Literal(<<".", "5">>, 500),
      Literal(<<"0", ".", "2", "5">>, 250) }

\* The string of a sequence of tokens: the tokens joined by ":", after a
\* "-" for a negative duration.
Tokens(neg, tokens) ==
    [literal |-> FALSE,
     text |-> (IF neg THEN <<"-">> ELSE <<>>)
              \o Join([i \in 1..Len(tokens) |-> tokens[i].text], ":"),
     ms |-> 0, neg |-> neg, tokens |-> tokens]

DurationStrings ==
    DurationLiterals
    \cup { Tokens(neg, tokens) :
             neg \in BOOLEAN,
             tokens \in UNION { [1..n -> DurationTokens] : n \in 1..MaxTokens } }

\* TimeToSeconds()(value) for one string: operand holds the string.
DurationInit ==
    /\ NoRun("duration")
    /\ operand \in DurationStrings
    /\ step = 0
    /\ returned = <<>>

DurationCall ==
    /\ pc = "duration"
    /\ returned = <<>>
    /\ exc = "none"
    /\ LET result == TimeToSeconds(operand.text)
       IN IF result.ok
          THEN returned' = <<result.ms>> /\ UNCHANGED <<exc>>
          ELSE exc' = "ValueInvalid" /\ UNCHANGED <<returned>>
    /\ UNCHANGED <<operand, step, conf, state, pc, retries, exec_count, last_module,
                   static_data, finished_data, received, frozen_data, pending, calls>>

DurationNext == DurationCall

DurationSpec == DurationInit /\ [][DurationNext]_vars

\* ------------------------------------------------------------------ task repetition

\* The longest list a task repeats over.
MaxRepeat == 2

\* A string leaf: the pieces of its text.
Str(s) == [t |-> "str", n |-> 0, d |-> s]

\* The pieces string.Template reads a string as: plain text, ${name},
\* $name and $$.
Text(s) == [kind |-> "text", s |-> s]
Braced(name) == [kind |-> "braced", s |-> name]
Bare(name) == [kind |-> "named", s |-> name]
Escaped == [kind |-> "escaped", s |-> <<"$", "$">>]

\* Template.idpattern, [_a-z][_a-z0-9]*, over the characters names are
\* written in.
IdStart == {"_", "a", "b", "c", "i"}
IsIdentifier(name) ==
    /\ name # <<>>
    /\ name[1] \in IdStart
    /\ \A k \in 2..Len(name) : name[k] \in IdStart \cup Digits

\* str(j) for the running index.
StrOf(j) ==
    <<Text(<< <<"0", "1", "2", "3", "4", "5", "6", "7", "8", "9">>[j + 1] >>)>>

\* What Template.safe_substitute puts in the place of one piece.
Substitute(piece, parameters) ==
    CASE piece.kind = "escaped" -> <<Text(<<"$">>)>>
      [] /\ piece.kind \in {"braced", "named"}
         /\ IsIdentifier(piece.s)
         /\ DHas(parameters, piece.s) -> DGet(parameters, piece.s)
      [] OTHER -> <<piece>>

\* Template(item).safe_substitute(**parameters)
RECURSIVE safe_substitute(_, _)
safe_substitute(item, parameters) ==
    IF item = <<>> THEN <<>>
    ELSE Substitute(item[1], parameters) \o safe_substitute(Tail(item), parameters)

RECURSIVE render(_, _)

\* The rendering that leaves nested lists and mappings as they are.
RenderItemShallow(item, parameters) ==
    IF item.t = "str" THEN Str(safe_substitute(item.d, parameters)) ELSE item

\* What render leaves in the place of one item of a list or mapping.
RenderItem(item, parameters) ==
    IF item.t \in {"list", "map"} THEN render(item, parameters)
    ELSE IF item.t = "str" THEN Str(safe_substitute(item.d, parameters))
    ELSE item

\* render(value, parameters), as the value it leaves behind.
render(value, parameters) ==
    IF value.t = "map"
    THEN Map([k \in 1..Len(value.d) |->
                Entry(value.d[k].k, RenderItem(value.d[k].v, parameters))])
    ELSE Lst([k \in 1..Len(value.d) |-> RenderItem(value.d[k], parameters)])

\* AlwaysList: a value that is not a list becomes the list of that value.
AlwaysList(v) == IF v.t = "list" THEN v ELSE Lst(<<v>>)

\* check_length(config): every value a list, and a raise unless the lists
\* are as long as the first.
check_length(config) ==
    LET lists == [k \in 1..Len(config.d) |->
                    Entry(config.d[k].k, AlwaysList(config.d[k].v))]
    IN IF \E k \in 1..Len(lists) : Len(lists[k].v.d) # Len(lists[1].v.d)
       THEN Raised
       ELSE Value(Map(lists))

repeat_for == <<"repeat_for">>

\* validated["repeat_for"]: None when the key is absent or null.
Repeats(each_task) == DHas(each_task.d, repeat_for) /\ DGet(each_task.d, repeat_for).t # "none"

\* ModuleName()(value): lower case, and a raise unless every character is
\* a letter, a digit or one of "_-.+".
ModuleName(value) ==
    IF \A k \in 1..Len(value.d) :
          /\ value.d[k].kind = "text"
          /\ \A c \in 1..Len(value.d[k].s) : value.d[k].s[c] # "$"
    THEN Value(Str([k \in 1..Len(value.d) |-> Text(Lower(value.d[k].s))]))
    ELSE Raised

\* super().__call__(task) on the keys a task is given here: the name goes
\* through ModuleName, the repetition key through check_length, params are
\* kept as they are.
ValidateTask(each_task) ==
    LET name == ModuleName(DGet(each_task.d, <<"name">>))
        checked == IF Repeats(each_task) THEN check_length(DGet(each_task.d, repeat_for))
                   ELSE Value(NoneV)
    IN IF ~name.ok \/ ~checked.ok THEN Raised
       ELSE Value(Map([k \in 1..Len(each_task.d) |->
                CASE each_task.d[k].k = <<"name">> -> Entry(<<"name">>, name.v)
                  [] each_task.d[k].k = repeat_for /\ Repeats(each_task) -> Entry(repeat_for, checked.v)
                  [] OTHER -> each_task.d[k]]))

\* params = {key: for_each[key][j] for key in keys} | {"i": j}
Params(for_each, j) ==
    DSet([k \in 1..Len(for_each.d) |->
            Entry(for_each.d[k].k, for_each.d[k].v.d[j + 1].d)],
         <<"i">>, StrOf(j))

\* The tasks one task of the configuration adds to results, or a raise.
RECURSIVE EachConf(_, _, _, _)
EachConf(each_task, for_each, j, n) ==
    IF j = n THEN [ok |-> TRUE, v |-> <<>>]
    ELSE LET each_conf == ValidateTask(render(each_task, Params(for_each, j)))
             rest == EachConf(each_task, for_each, j + 1, n)
         IN IF ~each_conf.ok \/ ~rest.ok THEN [ok |-> FALSE, v |-> <<>>]
            ELSE [ok |-> TRUE, v |-> <<each_conf.v>> \o rest.v]

RepeatLists(name) ==
    { Entry(name, Lst([k \in 1..n |-> Str(<<Text(<<"q">>)>>)])) : n \in 0..MaxRepeat }
    \cup { Entry(name, Lst(<<Str(<<Text(<<"P">>)>>), Str(<<Text(<<"q">>)>>)>>)),
           Entry(name, Str(<<Text(<<"P">>)>>)) }

\* The values of the repetition key: absent, null, no list, one list, two
\* lists of equal or unequal length, a list called i, a list whose name
\* is not an identifier.
RepeatFors ==
    { <<>>, <<Entry(repeat_for, NoneV)>>, <<Entry(repeat_for, Map(<<>>))>> }
    \cup { <<Entry(repeat_for, Map(<<a>>))>> : a \in RepeatLists(<<"a">>) }
    \cup { <<Entry(repeat_for, Map(<<a, b>>))>> :
             a \in RepeatLists(<<"a">>),
             b \in { Entry(<<"b">>, Lst(<<Str(<<Text(<<"r">>)>>), Str(<<Text(<<"s">>)>>)>>)),
                     Entry(<<"b">>, Str(<<Text(<<"r">>)>>)) } }
    \cup { <<Entry(repeat_for, Map(<<Entry(name, Lst(<<Str(<<Text(<<"r">>)>>),
                                                        Str(<<Text(<<"s">>)>>)>>))>>))>> :
             name \in { <<"i">>, <<"a", "-", "b">> } }

TaskNames ==
    { <<Text(<<"t">>)>>, <<Text(<<"t">>), Braced(<<"i">>)>>,
      <<Text(<<"T">>), Braced(<<"a">>)>>, <<Text(<<"t">>), Braced(<<"c">>)>> }

TaskLeaves ==
    { <<Text(<<"x">>)>>,
      <<Text(<<"x">>), Braced(<<"a">>), Braced(<<"b">>)>>,
      <<Braced(<<"i">>), Text(<<"x">>), Braced(<<"i">>)>>,
      <<Braced(<<"c">>)>>,
      <<Bare(<<"a">>)>>,
      <<Escaped, Braced(<<"a">>)>>,
      <<Braced(<<"a", "-", "b">>)>> }

RepeatTasks ==
    { Map(<<Entry(<<"name">>, Str(name)),
            Entry(<<"params">>,
                  Map(<<Entry(<<"url">>, Str(leaf)),
                        Entry(<<"tags">>, Lst(<<Num(1), nested>>))>>))>> \o repeat) :
        name \in TaskNames, leaf \in TaskLeaves,
        nested \in { Str(<<Braced(<<"a">>)>>), Map(<<Entry(<<"k">>, Str(<<Braced(<<"i">>)>>))>>) },
        repeat \in RepeatFors }

\* A task that repeats twice, to follow another task.
SecondTask ==
    Map(<<Entry(<<"name">>, Str(<<Text(<<"u">>), Braced(<<"i">>)>>)),
          Entry(<<"params">>, Map(<<Entry(<<"url">>, Str(<<Braced(<<"a">>)>>))>>)),
          Entry(repeat_for,
                Map(<<Entry(<<"a">>, Lst(<<Str(<<Text(<<"r">>)>>), Str(<<Text(<<"s">>)>>)>>))>>))>>)

\* TaskSchema.__call__(config): operand holds config, step the tasks gone
\* through, returned the results.
RepeatInit ==
    /\ NoRun("repeat")
    /\ \E each_task \in RepeatTasks :
          operand \in { [config |-> <<each_task>>], [config |-> <<each_task, SecondTask>>] }
    /\ step = 0
    /\ returned = <<>>

\* One pass of the loop over config.
RepeatTask ==
    /\ pc = "repeat"
    /\ exc = "none"
    /\ step < Len(operand.config)
    /\ LET each_task == operand.config[step + 1]
           for_each == check_length(DGet(each_task.d, repeat_for))
           plain == ValidateTask(each_task)
           each == EachConf(each_task, for_each.v, 0, Len(for_each.v.d[1].v.d))
       IN IF ~Repeats(each_task)
          THEN IF plain.ok
               THEN returned' = Append(returned, plain.v) /\ step' = step + 1
                    /\ UNCHANGED <<exc>>
               ELSE exc' = "Invalid" /\ UNCHANGED <<returned, step>>
          ELSE IF ~for_each.ok
          THEN exc' = "Invalid" /\ UNCHANGED <<returned, step>>
          ELSE IF for_each.v.d = <<>>
          THEN exc' = "IndexError" /\ UNCHANGED <<returned, step>>
          ELSE IF each.ok
          THEN returned' = returned \o each.v /\ step' = step + 1 /\ UNCHANGED <<exc>>
          ELSE exc' = "Invalid" /\ UNCHANGED <<returned, step>>
    /\ UNCHANGED <<operand, conf, state, pc, retries, exec_count, last_module,
                   static_data, finished_data, received, frozen_data, pending, calls>>

RepeatNext == RepeatTask

RepeatSpec == RepeatInit /\ [][RepeatNext]_vars

\* ------------------------------------------------------------------ settings

\* The most calls made on Settings in one start.
MaxCalls == 3

SettingKeys == {"run_once", "log_level"}

\* The values a setting is given, as written on the command line, in a
\* configuration file or in an environment variable.
RawValues(key) ==
    IF key = "run_once" THEN {"yes", "0", "junk"} ELSE {"10", "20", "x"}

\* cls.__annotations__[key](value): Boolean() for run_once, int for
\* log_level; a raise for a value that is neither.
Annotated(key, value) ==
    CASE key = "run_once" /\ value \in {"yes", "True"} -> [ok |-> TRUE, v |-> "True"]
      [] key = "run_once" /\ value \in {"0", "False"} -> [ok |-> TRUE, v |-> "False"]
      [] key = "log_level" /\ value \in {"10", "20"} -> [ok |-> TRUE, v |-> value]
      [] OTHER -> [ok |-> FALSE, v |-> value]

\* The membership test that finds no key.
PersistentNever(key, keys) == FALSE

\* key in Settings.Persistent()
Persistent(key, keys) == \E k \in 1..Len(keys) : keys[k] = key

\* Settings.set(key, value, persistent) on the settings s: the settings it
\* leaves, and whether it raised.
SettingsSet(s, key, value, persistent) ==
    LET validated == Annotated(key, value)
    IN IF Persistent(key, s.keys) THEN [ok |-> TRUE, s |-> s]
       ELSE IF ~validated.ok THEN [ok |-> FALSE, s |-> s]
       ELSE [ok |-> TRUE,
             s |-> [values |-> [s.values EXCEPT ![key] = validated.v],
                    keys |-> IF persistent THEN Append(s.keys, key) ELSE s.keys]]

\* Settings.extend(mapping): set for each pair in turn, up to a raise.
RECURSIVE SettingsExtendAll(_, _)
SettingsExtendAll(s, mapping) ==
    IF mapping = <<>> THEN [ok |-> TRUE, s |-> s]
    ELSE LET first == SettingsSet(s, mapping[1].k, mapping[1].v, FALSE)
         IN IF ~first.ok THEN first ELSE SettingsExtendAll(first.s, Tail(mapping))

\* Settings.initiate() with the environment variables STREAMLET_<FIELD>:
\* every field takes its variable's value, or keeps its own, validated.
SettingsInitiate(s, environ) ==
    LET validated == [key \in SettingKeys |->
                        Annotated(key, IF environ[key].set THEN environ[key].items
                                       ELSE s.values[key])]
    IN IF \E key \in SettingKeys : ~validated[key].ok THEN [ok |-> FALSE, s |-> s]
       ELSE [ok |-> TRUE,
             s |-> [values |-> [key \in SettingKeys |-> validated[key].v], keys |-> s.keys]]

SettingMappings ==
    { <<>> }
    \cup { <<Entry(key, v)>> : key \in {"run_once"}, v \in RawValues("run_once") }
    \cup { <<Entry("log_level", v), Entry("run_once", "yes")>> : v \in RawValues("log_level") }

SettingEnvirons ==
    { [key \in SettingKeys |-> IF key = "log_level" THEN v ELSE None] :
        v \in { None, List("10"), List("20") } }

\* The settings after setup(): operand holds the values, the persistent
\* keys and the call made last, step the calls made.
SettingsInit ==
    /\ NoRun("settings")
    /\ operand = [values |-> [key \in SettingKeys |->
                                IF key = "run_once" THEN "False" ELSE "20"],
                  keys |-> <<>>,
                  last |-> [op |-> "setup", key |-> "", value |-> "", persistent |-> FALSE]]
    /\ step = 0
    /\ returned = <<>>

\* The settings and the record of one call.
AfterCall(result, op, key, value, persistent) ==
    /\ operand' = [values |-> result.s.values, keys |-> result.s.keys,
                   last |-> [op |-> op, key |-> key, value |-> value,
                             persistent |-> persistent]]
    /\ step' = step + 1
    /\ exc' = IF result.ok THEN "none" ELSE "Invalid"
    /\ UNCHANGED <<returned, conf, state, pc, retries, exec_count, last_module,
                   static_data, finished_data, received, frozen_data, pending, calls>>

CallsOpen == pc = "settings" /\ exc = "none" /\ step < MaxCalls

\* Settings.set(key, value, persistent)
SetCall ==
    /\ CallsOpen
    /\ \E key \in SettingKeys, persistent \in BOOLEAN :
          \E value \in RawValues(key) :
             AfterCall(SettingsSet([values |-> operand.values, keys |-> operand.keys],
                                   key, value, persistent),
                       "set", key, value, persistent)

\* Settings.extend(mapping)
ExtendCall ==
    /\ CallsOpen
    /\ \E mapping \in SettingMappings :
          AfterCall(SettingsExtendAll([values |-> operand.values, keys |-> operand.keys],
                                      mapping),
                    "extend", "", "", FALSE)

\* Settings.initiate()
InitiateCall ==
    /\ CallsOpen
    /\ \E environ \in SettingEnvirons :
          AfterCall(SettingsInitiate([values |-> operand.values, keys |-> operand.keys],
                                     environ),
                    "initiate", "", "", FALSE)

SettingsNext == SetCall \/ ExtendCall \/ InitiateCall

SettingsSpec == SettingsInit /\ [][SettingsNext]_vars

\* ------------------------------------------------------------------ module registry

\* The most modules a flow configures.
MaxModules == 3

\* b64encode(blake2s(json.dumps(config, sort_keys=True)))[:8], taken as
\* free of collisions: one digest for each content.
Digest(config) == IF config.content = 1 THEN "h1" ELSE "h2"

\* self.name: config["name"], or module_name() and the digest of the
\* configuration when that is None.
ResolvedName(config) ==
    IF config.name.set THEN config.name.items
    ELSE <<config.type, "_", Digest(config)>>

\* The membership test that finds no name.
RecordedNever(name, all_modules) == FALSE

\* self.name in AbstractModule.all_modules
Recorded(name, all_modules) == DHas(all_modules, name)

ModuleConfigs ==
    { [type |-> "debug", name |-> name, content |-> content] :
        name \in { None, List(<<"a">>), List(<<"b">>), List(<<"debug", "_", "h1">>) },
        content \in {1, 2} }

\* The building of inputs, transforms and outputs in StreamletFlow.__init__:
\* operand holds the validated configuration entries in the order they are
\* built and the registry, step the entries gone through, returned the
\* instances built.
RegistryInit ==
    /\ NoRun("create_module")
    /\ \E n \in 1..MaxModules :
          \E configs \in [1..n -> ModuleConfigs] :
             operand = [configs |-> configs, all_modules |-> <<>>]
    /\ step = 0
    /\ returned = <<>>

\* Modules.create_module(_cls, flow, config, index) for the next entry; an
\* instance is the place of its entry.
CreateModule ==
    /\ pc = "create_module"
    /\ exc = "none"
    /\ step < Len(operand.configs)
    /\ LET name == ResolvedName(operand.configs[step + 1])
       IN IF Recorded(name, operand.all_modules)
          THEN exc' = "ValueError" /\ UNCHANGED <<operand, step, returned>>
          ELSE /\ operand' = [operand EXCEPT
                                !.all_modules = DSet(operand.all_modules, name, step + 1)]
               /\ step' = step + 1
               /\ returned' = Append(returned, step + 1)
               /\ UNCHANGED <<exc>>
    /\ UNCHANGED <<conf, state, pc, retries, exec_count, last_module,
                   static_data, finished_data, received, frozen_data, pending, calls>>

RegistryNext == CreateModule

RegistrySpec == RegistryInit /\ [][RegistryNext]_vars

\* ------------------------------------------------------------------ task registry

\* The most inputs a flow configures.
MaxInputs == 2

\* TaskSchema.__call__(config) as a whole: the results, or a raise.
RECURSIVE TaskSchemaCall(_)
TaskSchemaCall(config) ==
    IF config = <<>> THEN [ok |-> TRUE, v |-> <<>>]
    ELSE LET first == config[1]
             for_each == check_length(DGet(first.d, repeat_for))
             here == IF ~Repeats(first)
                     THEN LET plain == ValidateTask(first)
                          IN [ok |-> plain.ok, v |-> <<plain.v>>]
                     ELSE IF ~for_each.ok \/ for_each.v.d = <<>>
                     THEN [ok |-> FALSE, v |-> <<>>]
                     ELSE EachConf(first, for_each.v, 0, Len(for_each.v.d[1].v.d))
             rest == TaskSchemaCall(Tail(config))
         IN IF ~here.ok \/ ~rest.ok THEN [ok |-> FALSE, v |-> <<>>]
            ELSE [ok |-> TRUE, v |-> here.v \o rest.v]

\* The text of a string leaf.
RECURSIVE TextOf(_)
TextOf(pieces) == IF pieces = <<>> THEN <<>> ELSE pieces[1].s \o TextOf(Tail(pieces))

\* cls_name = f"StreamletTask_{Settings.task_name_prefix}{config['name']}"
ClsName(task_name_prefix, config) ==
    <<"StreamletTask_">> \o task_name_prefix \o TextOf(DGet(config.d, <<"name">>).d)

\* The lookup that finds no class.
AllClsGetNever(cls_name, ALL_CLS) == FALSE

\* StreamletTask.ALL_CLS.get(cls_name)
AllClsGet(cls_name, ALL_CLS) == DHas(ALL_CLS, cls_name)

\* A task of an input's configuration, named by a template, repeated over
\* a list of two values or not at all.
TaskConf(name, repeats) ==
    Map(<<Entry(<<"name">>, Str(name)),
          Entry(<<"params">>, Map(<<Entry(<<"url">>, Str(<<Braced(<<"a">>)>>))>>))>>
        \o IF repeats
           THEN <<Entry(repeat_for,
                        Map(<<Entry(<<"a">>, Lst(<<Str(<<Text(<<"r">>)>>),
                                                    Str(<<Text(<<"s">>)>>)>>))>>))>>
           ELSE <<>>)

\* The task lists of the inputs of a flow.
InputTasks ==
    { <<TaskConf(<<Text(<<"t">>)>>, FALSE)>>,
      <<TaskConf(<<Text(<<"t">>)>>, FALSE), TaskConf(<<Text(<<"u">>)>>, FALSE)>>,
      <<TaskConf(<<Text(<<"t">>), Braced(<<"i">>)>>, TRUE)>>,
      <<TaskConf(<<Text(<<"t">>)>>, TRUE)>>,
      <<TaskConf(<<Text(<<"T">>), Text(<<"0">>)>>, FALSE)>>,
      <<TaskConf(<<Text(<<"u">>), Braced(<<"a">>)>>, TRUE)>> }

\* The validated tasks of the inputs, in the order they are created, each
\* with the place of its input.
RECURSIVE TaskConfs(_, _)
TaskConfs(inputs, at) ==
    IF at > Len(inputs) THEN <<>>
    ELSE LET confs == TaskSchemaCall(inputs[at]).v
         IN [k \in 1..Len(confs) |-> [input |-> at, config |-> confs[k]]]
            \o TaskConfs(inputs, at + 1)

\* The building of the inputs' tasks in AbstractInput.__init__: operand
\* holds the prefix, the validated tasks and the task registry, step the
\* tasks gone through, returned the tasks created.
TaskRegistryInit ==
    /\ NoRun("create_task")
    /\ \E n \in 1..MaxInputs, task_name_prefix \in { <<>>, <<"p", "_">> } :
          \E inputs \in [1..n -> InputTasks] :
             operand = [task_name_prefix |-> task_name_prefix,
                        task_confs |-> TaskConfs(inputs, 1),
                        ALL_CLS |-> <<>>]
    /\ step = 0
    /\ returned = <<>>

\* StreamletTask(input_module, config) for the next task.
CreateTask ==
    /\ pc = "create_task"
    /\ exc = "none"
    /\ step < Len(operand.task_confs)
    /\ LET cls_name == ClsName(operand.task_name_prefix, operand.task_confs[step + 1].config)
       IN IF AllClsGet(cls_name, operand.ALL_CLS)
          THEN exc' = "ValueError" /\ UNCHANGED <<operand, step, returned>>
          ELSE /\ operand' = [operand EXCEPT !.ALL_CLS = DSet(operand.ALL_CLS, cls_name, step + 1)]
               /\ step' = step + 1
               /\ returned' = Append(returned, step + 1)
               /\ UNCHANGED <<exc>>
    /\ UNCHANGED <<conf, state, pc, retries, exec_count, last_module,
                   static_data, finished_data, received, frozen_data, pending, calls>>

TaskRegistryNext == CreateTask

TaskRegistrySpec == TaskRegistryInit /\ [][TaskRegistryNext]_vars

\* ------------------------------------------------------------------ module classes

\* The most module classes found in the package.
MaxClasses == 3

\* str.removesuffix(suffix)
RemoveSuffix(s, suffix) ==
    IF Len(s) >= Len(suffix) /\ SubSeq(s, Len(s) - Len(suffix) + 1, Len(s)) = suffix
    THEN SubSeq(s, 1, Len(s) - Len(suffix))
    ELSE s

\* AbstractModule.module_name(): the class name without a final "Input" and
\* then without a final "Output", in lower case.
module_name(cls_name) ==
    Lower(RemoveSuffix(RemoveSuffix(cls_name, <<"I", "n", "p", "u", "t">>),
                       <<"O", "u", "t", "p", "u", "t">>))

\* The test that finds no name registered.
InMappingNever(name, mapping) == FALSE

\* name in mapping.keys()
InMapping(name, mapping) == DHas(mapping, name)

\* Modules._add_module_cls(_cls, mapping): the mapping it leaves, or a raise.
add_module_cls(cls, mapping) ==
    IF InMapping(module_name(cls.name), mapping)
    THEN [ok |-> FALSE, mapping |-> mapping]
    ELSE [ok |-> TRUE, mapping |-> DSet(mapping, module_name(cls.name), cls)]

\* A module class: its name and the abstract class it is a subclass of.
ModuleCls(name, base) == [name |-> name, base |-> base]

ModuleClasses ==
    { ModuleCls(<<"H", "I", "n", "p", "u", "t">>, "input"),
      ModuleCls(<<"H", "O", "u", "t", "p", "u", "t">>, "output"),
      ModuleCls(<<"H">>, "input"),
      ModuleCls(<<"h", "I", "n", "p", "u", "t">>, "input"),
      ModuleCls(<<"H">>, "transform"),
      ModuleCls(<<"P", "O", "u", "t", "p", "u", "t">>, "output"),
      ModuleCls(<<"P", "I", "n", "p", "u", "t", "O", "u", "t", "p", "u", "t">>, "output") }

\* Modules.initialize(package): operand holds the classes the package
\* yields and the three mappings, step the classes gone through.
ModulesInit ==
    /\ NoRun("initialize")
    /\ \E n \in 1..MaxClasses :
          \E classes \in [1..n -> ModuleClasses] :
             operand = [classes |-> classes,
                        modules |-> [base \in {"input", "transform", "output"} |-> <<>>]]
    /\ step = 0
    /\ returned = <<>>

\* One pass of the loop of Modules.initialize.
AddModuleCls ==
    /\ pc = "initialize"
    /\ exc = "none"
    /\ step < Len(operand.classes)
    /\ LET node_cls == operand.classes[step + 1]
           added == add_module_cls(node_cls, operand.modules[node_cls.base])
       IN IF added.ok
          THEN /\ operand' = [operand EXCEPT !.modules[node_cls.base] = added.mapping]
               /\ step' = step + 1
               /\ UNCHANGED <<exc>>
          ELSE exc' = "ValueError" /\ UNCHANGED <<operand, step>>
    /\ UNCHANGED <<returned, conf, state, pc, retries, exec_count, last_module,
                   static_data, finished_data, received, frozen_data, pending, calls>>

ModulesNext == AddModuleCls

ModulesSpec == ModulesInit /\ [][ModulesNext]_vars

\* ------------------------------------------------------------------ startup

\* EnvironmentVar()(value) as a whole: the expanded value, or a raise when
\* the value still changes after max_depth passes.
RECURSIVE EnvironmentVar(_, _, _)
EnvironmentVar(value, environ, max_depth) ==
    IF DepthReached(max_depth) THEN [ok |-> FALSE, v |-> value]
    ELSE IF expandvars(value, environ) = value THEN [ok |-> TRUE, v |-> value]
    ELSE EnvironmentVar(expandvars(value, environ), environ, max_depth - 1)

\* EnvSchema()(configuration)["env"]: every value of the section expanded,
\* or a raise of Invalid for a section that is no mapping of strings or
\* has a value that does not expand.
EnvSchema(section, environ) ==
    LET expanded == [k \in 1..Len(section.d) |->
                       EnvironmentVar(section.d[k].v, environ, max_depth_default)]
    IN IF ~section.mapping \/ \E k \in 1..Len(section.d) : ~expanded[k].ok
       THEN [ok |-> FALSE, env |-> <<>>]
       ELSE [ok |-> TRUE,
             env |-> [k \in 1..Len(section.d) |-> Entry(section.d[k].k, expanded[k].v)]]

\* load_env_pairs(items): os.environ |= items
RECURSIVE load_env_pairs(_, _)
load_env_pairs(items, environ) ==
    IF items = <<>> THEN environ
    ELSE load_env_pairs(Tail(items), [environ EXCEPT ![items[1].k] = List(items[1].v)])

\* The env sections of a configuration file.
EnvSections ==
    { [mapping |-> TRUE, d |-> <<>>],
      [mapping |-> FALSE, d |-> <<>>],
      [mapping |-> TRUE, d |-> <<Entry("A", <<Lit("x")>>)>>],
      [mapping |-> TRUE, d |-> <<Entry("A", <<Ref("A"), Lit("x")>>)>>],
      [mapping |-> TRUE, d |-> <<Entry("A", <<Ref("B")>>), Entry("B", <<Lit("x")>>)>>],
      [mapping |-> TRUE, d |-> <<Entry("A", <<Ref("B")>>), Entry("B", <<Ref("A"), Lit("x")>>)>>] }

\* The extension files a header names, each by what loading it comes to.
ExtensionFiles ==
    { <<>>, <<"ok">>, <<"invalid">>, <<"bad_yaml">>, <<"empty", "ok">>, <<"ok", "invalid">> }

\* A start of the program: the configuration file, the process
\* environment and the only_validate setting.
Starts ==
    { [file |-> file, env |-> [mapping |-> TRUE, d |-> <<>>], header |-> TRUE,
       modules |-> "ok", extends |-> <<>>, only_validate |-> FALSE,
       environ |-> [n \in {"A", "B"} |-> None]] :
        file \in {"missing", "bad_yaml", "not_dict"} }
    \cup
    { [file |-> "ok", env |-> env, header |-> header, modules |-> modules,
       extends |-> extends, only_validate |-> only_validate,
       environ |-> [n \in {"A", "B"} |-> IF n = "A" THEN a ELSE None]] :
        env \in EnvSections, header \in BOOLEAN,
        modules \in {"ok", "invalid", "unknown_type", "duplicate_name"},
        extends \in ExtensionFiles, only_validate \in BOOLEAN,
        a \in { None, List(<<Lit("y")>>) } }

\* main() after load_argv and Modules.initialize: operand holds the start
\* with the environment as it is now, returned the exit status.
StartInit ==
    /\ NoRun("get_configuration")
    /\ operand \in Starts
    /\ step = 0
    /\ returned = <<>>

StartVars ==
    <<step, conf, state, retries, exec_count, last_module, static_data,
      finished_data, received, frozen_data, pending, calls>>

\* sys.exit(status), on the exception of class cls or on none.
Exit(status, cls) ==
    /\ pc' = "exited"
    /\ returned' = <<status>>
    /\ exc' = cls
    /\ UNCHANGED <<operand, StartVars>>

\* The next statement of StreamletFlow.__init__.
Goto(at) ==
    /\ pc' = at
    /\ UNCHANGED <<returned, exc, StartVars>>

\* The status validate() exits with.
validate_status == 2

\* The status main() exits with on an exception.
main_status == 1

\* self.get_configuration(), flow.py 121-135.
GetConfiguration ==
    /\ pc = "get_configuration"
    /\ CASE operand.file = "missing" -> Exit(main_status, "NoFile")
         [] operand.file = "bad_yaml" -> Exit(main_status, "YAMLError")
         [] OTHER -> Goto("env") /\ UNCHANGED operand

\* validate(self.configuration, EnvSchema())["env"] and load_env_pairs,
\* flow.py 48-49.
ValidateEnv ==
    /\ pc = "env"
    /\ LET validated == EnvSchema(operand.env, operand.environ)
       IN IF operand.file = "not_dict" THEN Exit(main_status, "AssertionError")
          ELSE IF ~validated.ok THEN Exit(validate_status, "Invalid")
          ELSE /\ operand' = [operand EXCEPT
                                !.environ = load_env_pairs(validated.env, operand.environ)]
               /\ Goto("header")

\* validate(self.configuration, HeaderSchema()), flow.py 52-56.
ValidateHeader ==
    /\ pc = "header"
    /\ IF ~operand.header THEN Exit(validate_status, "Invalid")
       ELSE /\ Goto(IF operand.extends # <<>> THEN "extends" ELSE "env_again")
            /\ UNCHANGED operand

\* The first extension file, from the last named to the first, whose
\* loading ends the start, or "ok".
RECURSIVE FirstFailing(_)
FirstFailing(paths) ==
    IF paths = <<>> THEN "ok"
    ELSE IF Last(paths) \in {"ok", "empty"} THEN FirstFailing(Front(paths))
    ELSE Last(paths)

\* self.load_extensions(extensions), flow.py 173-222.
LoadExtensions ==
    /\ pc = "extends"
    /\ IF \/ ~EnvSchema(operand.env, operand.environ).ok
          \/ operand.modules \in {"invalid", "unknown_type"}
       THEN Exit(validate_status, "Invalid")
       ELSE CASE FirstFailing(operand.extends) = "invalid" -> Exit(validate_status, "Invalid")
              [] FirstFailing(operand.extends) = "bad_yaml" -> Exit(main_status, "YAMLError")
              [] OTHER -> Goto("env_again") /\ UNCHANGED operand

\* EnvSchema()(self.configuration)["env"] and load_env_pairs, flow.py 71-73.
EnvAgain ==
    /\ pc = "env_again"
    /\ LET validated == EnvSchema(operand.env, operand.environ)
       IN IF ~validated.ok THEN Exit(main_status, "Invalid")
          ELSE /\ operand' = [operand EXCEPT
                                !.environ = load_env_pairs(validated.env, operand.environ)]
               /\ Goto("flow_schema")

\* validate(self.configuration, FlowSchema()), flow.py 77.
ValidateFlowSchema ==
    /\ pc = "flow_schema"
    /\ IF \/ ~EnvSchema(operand.env, operand.environ).ok
          \/ operand.modules \in {"invalid", "unknown_type"}
       THEN Exit(validate_status, "Invalid")
       ELSE Goto("build") /\ UNCHANGED operand

\* The building of the modules and the Celery application, flow.py 80-119.
Build ==
    /\ pc = "build"
    /\ IF operand.modules = "duplicate_name" THEN Exit(main_status, "ValueError")
       ELSE Goto("on_init") /\ UNCHANGED operand

\* on_init, flow.py 224-242.
OnInit ==
    /\ pc = "on_init"
    /\ IF operand.only_validate THEN Exit(0, "none")
       ELSE Goto("check_broker_connection") /\ UNCHANGED operand

StartNext ==
    \/ GetConfiguration \/ ValidateEnv \/ ValidateHeader \/ LoadExtensions
    \/ EnvAgain \/ ValidateFlowSchema \/ Build \/ OnInit

StartSpec == StartInit /\ [][StartNext]_vars

\* ------------------------------------------------------------------ code transform

MaxExecs == 2

\* Mutant of Allowed: the setting is not looked at.
AllowedAlways(allow_exec) == TRUE

\* Settings.allow_exec as CodeTransform.compile reads it.
Allowed(allow_exec) == allow_exec

\* CodeTransform.compile(code): the binary (None for empty code), or the
\* exception raised; compiled tells whether compile() was called on it.
Compile(code, allow_exec) ==
    IF code = "" THEN [error |-> "none", binary |-> None, compiled |-> FALSE]
    ELSE IF ~Allowed(allow_exec)
    THEN [error |-> "ValueError", binary |-> None, compiled |-> FALSE]
    ELSE IF code = "("
    THEN [error |-> "SyntaxError", binary |-> None, compiled |-> TRUE]
    ELSE [error |-> "none", binary |-> List(<<code>>), compiled |-> TRUE]

\* The codetransform entries of a configuration: empty, well-formed and
\* ill-formed source, in either mode.
CodeConfs ==
    { [src |-> src, iter_over_dataframe |-> mode] :
        src \in {"", "pass", "("}, mode \in BOOLEAN }

\* The construction of a flow: operand holds the setting, the transform
\* section, the transforms built, the exception that ended the construction
\* and the sources compiled and executed so far.
ExecInit ==
    /\ NoRun("build")
    /\ \E allow_exec \in BOOLEAN, n \in 0..2 :
          \E section \in [1..n -> CodeConfs] :
             operand = [allow_exec |-> allow_exec, section |-> section, built |-> <<>>,
                        error |-> "none", compiled |-> <<>>, executed |-> <<>>]
    /\ step = 0
    /\ returned = <<>>

ExecVars ==
    <<returned, conf, state, pc, retries, exec_count, last_module, static_data,
      finished_data, received, frozen_data, pending, calls, exc>>

\* Modules.create_module(AbstractTransform, ...) of the next codetransform.
CreateCodeTransform ==
    /\ operand.error = "none"
    /\ Len(operand.built) < Len(operand.section)
    /\ LET cfg == operand.section[Len(operand.built) + 1]
           done == Compile(cfg.src, operand.allow_exec)
       IN operand' = [operand EXCEPT
             !.compiled = IF done.compiled THEN Append(@, cfg.src) ELSE @,
             !.error = done.error,
             !.built = IF done.error = "none"
                       THEN Append(@, [code |-> cfg.src, binary |-> done.binary,
                                       iter_over_dataframe |-> cfg.iter_over_dataframe])
                       ELSE @]
    /\ UNCHANGED <<step, ExecVars>>

\* The sources a call of a transform executes on a frame of n metrics.
RECURSIVE Execs(_, _)
Execs(binary, n) ==
    IF n = 0 \/ ~binary.set THEN <<>> ELSE binary.items \o Execs(binary, n - 1)

\* CodeTransform.__call__(data) of a built transform in a run, on a frame
\* of n metrics.
CallCodeTransform ==
    /\ operand.error = "none"
    /\ Len(operand.built) = Len(operand.section)
    /\ step < MaxExecs
    /\ \E k \in 1..Len(operand.built), n \in 0..2 :
          operand' = [operand EXCEPT
             !.executed = @ \o Execs(operand.built[k].binary,
                                     IF operand.built[k].iter_over_dataframe THEN n ELSE 1)]
    /\ step' = step + 1
    /\ UNCHANGED ExecVars

ExecNext == CreateCodeTransform \/ CallCodeTransform

ExecSpec == ExecInit /\ [][ExecNext]_vars

\* ------------------------------------------------------------------ recent task ids

MaxRuns == 2
MaxReads == 2

\* deque(maxlen=Settings.task_id_queue_size), with room for every run.
task_id_queue_size == MaxRuns

\* deque.append(item) on a deque of at most maxlen items.
DequeAppend(d, item, maxlen) ==
    IF maxlen = 0 THEN d
    ELSE IF Len(d) < maxlen THEN Append(d, item) ELSE Append(Tail(d), item)

\* The items of a sequence that are in a set, in order.
RECURSIVE Only(_, _)
Only(ids, keep) ==
    IF ids = <<>> THEN <<>>
    ELSE (IF Head(ids) \in keep THEN <<Head(ids)>> ELSE <<>>) \o Only(Tail(ids), keep)

\* The worker's threads: operand holds the clock, of which no two readings
\* are the same, LAST_TASK_IDS, for every
\* run the time its before_start read (-1 before), the runs whose result
\* the backend holds, the call of StreamletMetrics in progress and the
\* identifiers its calls have counted; step counts its calls.
RingInit ==
    /\ NoRun("threads")
    /\ operand = [now |-> 0,
                  LAST_TASK_IDS |-> <<>>,
                  stamp |-> [r \in 1..MaxRuns |-> -1],
                  appended |-> {},
                  ready |-> {},
                  at |-> "idle",
                  current |-> 0,
                  run_timestamp |-> 0,
                  k |-> 0,
                  mutated |-> FALSE,
                  task_ids |-> <<>>,
                  pending |-> <<>>,
                  counted |-> <<>>,
                  error |-> "none"]
    /\ step = 0
    /\ returned = <<>>

RingVars ==
    <<returned, conf, state, pc, retries, exec_count, last_module, static_data,
      finished_data, received, frozen_data, pending, calls, exc>>

\* before_start of a first attempt: datetime.now(...) is evaluated.
StampRun ==
    /\ \E r \in 1..MaxRuns :
          /\ operand.stamp[r] = -1
          /\ operand' = [operand EXCEPT !.stamp[r] = operand.now, !.now = @ + 1]
    /\ UNCHANGED <<step, RingVars>>

\* before_start of a first attempt: LAST_TASK_IDS.append((time, task_id)).
\* No lock is taken; an iteration in progress finds the deque mutated.
AppendRun ==
    /\ \E r \in 1..MaxRuns :
          /\ operand.stamp[r] # -1
          /\ r \notin operand.appended
          /\ operand' = [operand EXCEPT
                !.LAST_TASK_IDS = DequeAppend(@, [d |-> operand.stamp[r], t |-> r],
                                              task_id_queue_size),
                !.appended = @ \cup {r},
                !.mutated = operand.at = "iterate"]
    /\ UNCHANGED <<step, RingVars>>

\* The run ends and the backend holds its result.
FinishRun ==
    /\ \E r \in operand.appended \ operand.ready :
          operand' = [operand EXCEPT !.ready = @ \cup {r}]
    /\ UNCHANGED <<step, RingVars>>

\* StreamletMetrics.__call__: current = datetime.now(...).
ReadCurrent ==
    /\ operand.at = "idle"
    /\ step < MaxReads
    /\ operand' = [operand EXCEPT !.at = "start", !.current = operand.now, !.now = @ + 1,
                                  !.task_ids = <<>>, !.error = "none"]
    /\ step' = step + 1
    /\ UNCHANGED RingVars

\* The iteration of [t for d, t in task_mapping if d >= self.run_timestamp]
\* begins.
ReadIter ==
    /\ operand.at = "start"
    /\ operand' = [operand EXCEPT !.at = "iterate", !.k = 0, !.mutated = FALSE]
    /\ UNCHANGED <<step, RingVars>>

\* One pass of the iteration: the iterator raises RuntimeError on a deque
\* mutated since it started.
ReadNext ==
    /\ operand.at = "iterate"
    /\ IF operand.mutated
       THEN operand' = [operand EXCEPT !.at = "idle", !.error = "RuntimeError"]
       ELSE IF operand.k < Len(operand.LAST_TASK_IDS)
       THEN LET item == operand.LAST_TASK_IDS[operand.k + 1]
            IN operand' = [operand EXCEPT
                  !.k = @ + 1,
                  !.task_ids = IF item.d >= operand.run_timestamp
                               THEN Append(@, item.t) ELSE @]
       ELSE operand' = [operand EXCEPT !.at = "fetch", !.task_ids = @ \o operand.pending]
    /\ UNCHANGED <<step, RingVars>>

\* The rest of the call: the results are fetched, the pending ones are
\* kept for the next call, the others counted, and run_timestamp set.
ReadFetch ==
    /\ operand.at = "fetch"
    /\ operand' = [operand EXCEPT
          !.at = "idle",
          !.pending = Only(operand.task_ids, (1..MaxRuns) \ operand.ready),
          !.counted = @ \o Only(operand.task_ids, operand.ready),
          !.run_timestamp = operand.current]
    /\ UNCHANGED <<step, RingVars>>

RingNext ==
    StampRun \/ AppendRun \/ FinishRun \/ ReadCurrent \/ ReadIter \/ ReadNext \/ ReadFetch

RingSpec == RingInit /\ [][RingNext]_vars

\* ------------------------------------------------------------------ rate limiter

MaxCallers == 2
MaxData == 2
MaxNow == 2

\* The period of the rate limit, in ticks of the clock.
sleep_time == 1

\* Mutant of Acquirable: the lock does not exclude.
AcquirableAlways(owner, t) == TRUE

\* with self.rl_lock: a thread enters when the lock is free or its own.
Acquirable(owner, t) == owner \in {0, t}

\* The places of a call inside the with block.
Locked == {"available", "check", "reset_counter", "reset_window", "slice", "release"}

\* MonitMetricOutput after __init__, and the threads about to call it:
\* operand holds the clock, the lock's owner (0 when free), the limiter's
\* fields, the number of metrics handed to _http_call since the window
\* start was last recorded and, for each thread, its place, its frame's
\* length and its locals.
LimiterInit ==
    /\ NoRun("threads")
    /\ \E batch_size \in 1..MaxData :
          \E data \in [1..MaxCallers -> 1..MaxData] :
             operand = [now |-> 0, rl_lock |-> 0, batch_size |-> batch_size,
                        frame_filled |-> 0, last_reset |-> 0, handed |-> 0,
                        at |-> [t \in 1..MaxCallers |-> "while"],
                        data |-> data,
                        available |-> [t \in 1..MaxCallers |-> 0],
                        data_slice |-> [t \in 1..MaxCallers |-> 0]]
    /\ step = 0
    /\ returned = <<>>

LimiterVars ==
    <<step, returned, conf, state, pc, retries, exec_count, last_module, static_data,
      finished_data, received, frozen_data, pending, calls, exc>>

\* Time passes.
ClockTick ==
    /\ operand.now < MaxNow
    /\ operand' = [operand EXCEPT !.now = @ + 1]
    /\ UNCHANGED LimiterVars

\* while len(data) > 0: with self.rl_lock:
LimiterAcquire ==
    /\ \E t \in 1..MaxCallers :
          /\ operand.at[t] = "while"
          /\ IF operand.data[t] = 0
             THEN operand' = [operand EXCEPT !.at[t] = "returned"]
             ELSE /\ Acquirable(operand.rl_lock, t)
                  /\ operand' = [operand EXCEPT !.rl_lock = t, !.at[t] = "available"]
    /\ UNCHANGED LimiterVars

\* available = self.batch_size - self.frame_filled; if available < len(data):
LimiterAvailable ==
    /\ \E t \in 1..MaxCallers :
          /\ operand.at[t] = "available"
          /\ LET available == operand.batch_size - operand.frame_filled
             IN operand' = [operand EXCEPT
                   !.available[t] = available,
                   !.at[t] = IF available < operand.data[t] THEN "check" ELSE "slice"]
    /\ UNCHANGED LimiterVars

\* if time.time() < (self.last_reset + self.sleep_time): time.sleep(...)
LimiterSleep ==
    /\ \E t \in 1..MaxCallers :
          /\ operand.at[t] = "check"
          /\ operand' = [operand EXCEPT
                !.now = IF @ < operand.last_reset + sleep_time
                        THEN operand.last_reset + sleep_time ELSE @,
                !.at[t] = "reset_counter"]
    /\ UNCHANGED LimiterVars

\* self.frame_filled = 0
LimiterResetCounter ==
    /\ \E t \in 1..MaxCallers :
          /\ operand.at[t] = "reset_counter"
          /\ operand' = [operand EXCEPT !.frame_filled = 0, !.at[t] = "reset_window"]
    /\ UNCHANGED LimiterVars

\* self.last_reset = time.time(); available = self.batch_size
LimiterResetWindow ==
    /\ \E t \in 1..MaxCallers :
          /\ operand.at[t] = "reset_window"
          /\ operand' = [operand EXCEPT !.last_reset = operand.now,
                                        !.handed = 0,
                                        !.available[t] = operand.batch_size,
                                        !.at[t] = "slice"]
    /\ UNCHANGED LimiterVars

\* data_slice = data[:available]; data = data[available:];
\* self.frame_filled += len(data_slice)
LimiterSlice ==
    /\ \E t \in 1..MaxCallers :
          /\ operand.at[t] = "slice"
          /\ LET taken == IF operand.available[t] < operand.data[t]
                          THEN operand.available[t] ELSE operand.data[t]
             IN operand' = [operand EXCEPT
                   !.data_slice[t] = taken,
                   !.data[t] = @ - taken,
                   !.frame_filled = @ + taken,
                   !.at[t] = "release"]
    /\ UNCHANGED LimiterVars

\* The end of the with block.
LimiterRelease ==
    /\ \E t \in 1..MaxCallers :
          /\ operand.at[t] = "release"
          /\ operand' = [operand EXCEPT !.rl_lock = 0, !.at[t] = "send"]
    /\ UNCHANGED LimiterVars

\* format_payload and _http_call, which returns or raises.
LimiterSend ==
    /\ \E t \in 1..MaxCallers :
          /\ operand.at[t] = "send"
          /\ \E next \in {"while", "raised"} :
                operand' = [operand EXCEPT !.at[t] = next,
                                           !.handed = @ + operand.data_slice[t]]
    /\ UNCHANGED LimiterVars

LimiterNext ==
    \/ ClockTick \/ LimiterAcquire \/ LimiterAvailable \/ LimiterSleep
    \/ LimiterResetCounter \/ LimiterResetWindow \/ LimiterSlice
    \/ LimiterRelease \/ LimiterSend

LimiterSpec == LimiterInit /\ [][LimiterNext]_vars

\* ------------------------------------------------------------------ lifecycle hooks

MaxHooked == 3

\* Mutant of HookEnabled: the hooks do not look at the module's switch.
HookEnabledAlways(m, disable_outputs) == TRUE

\* if m.enabled:
HookEnabled(m, disable_outputs) == Enabled(m, disable_outputs)

\* The worker's consumer is ready: operand holds AbstractModule.all_modules
\* in order, the hooks invoked so far as (hook, module) pairs, the place of
\* the worker and StreamletFlow.ready; step is the loop index.
HooksInit ==
    /\ NoRun("on_consumer_ready")
    /\ \E n \in 1..MaxHooked, disable_outputs \in BOOLEAN :
          \E enabled \in [1..n -> BOOLEAN], category \in [1..n -> {"input", "output"}] :
             operand = [all_modules |-> [k \in 1..n |-> [name |-> k, enabled |-> enabled[k],
                                                        category |-> category[k]]],
                        disable_outputs |-> disable_outputs,
                        hooks |-> <<>>, at |-> "start", ready |-> FALSE]
    /\ step = 0
    /\ returned = <<>>

HooksVars ==
    <<returned, conf, state, pc, retries, exec_count, last_module, static_data,
      finished_data, received, frozen_data, pending, calls, exc>>

\* One pass of a loop over all_modules that invokes hook on the enabled
\* ones; the hook returns or raises, and the loop's end leads to after.
HookPass(hook, at, after) ==
    /\ operand.at = at
    /\ IF step = Len(operand.all_modules)
       THEN operand' = [operand EXCEPT !.at = after] /\ step' = 0
       ELSE LET m == operand.all_modules[step + 1]
            IN IF ~HookEnabled(m, operand.disable_outputs)
               THEN step' = step + 1 /\ UNCHANGED operand
               ELSE \/ /\ operand' = [operand EXCEPT !.hooks = Append(@, <<hook, m.name>>)]
                       /\ step' = step + 1
                    \/ /\ operand' = [operand EXCEPT !.hooks = Append(@, <<hook, m.name>>),
                                                     !.at = "raised"]
                       /\ step' = 0
    /\ UNCHANGED HooksVars

\* start(), flow.py 355-360.
OnConnect == HookPass("on_connect", "start", "register")

\* atexit.register(shutdown) and super().on_consumer_ready(consumer).
Register ==
    /\ operand.at = "register"
    /\ operand' = [operand EXCEPT !.at = "registered"]
    /\ UNCHANGED <<step, HooksVars>>

\* StreamletFlow.set_ready()
SetReady ==
    /\ operand.at = "registered"
    /\ operand' = [operand EXCEPT !.at = "running", !.ready = TRUE]
    /\ UNCHANGED <<step, HooksVars>>

\* The interpreter exits and runs the registered shutdown().
AtExit ==
    /\ operand.at \in {"registered", "running"}
    /\ operand' = [operand EXCEPT !.at = "pre_shutdown"]
    /\ step' = 0
    /\ UNCHANGED HooksVars

\* The first loop of shutdown(), flow.py 365-367.
OnPreShutdown == HookPass("on_pre_shutdown", "pre_shutdown", "shutdown")

\* The second loop of shutdown(), flow.py 370-372.
OnShutdown == HookPass("on_shutdown", "shutdown", "exited")

HooksNext == OnConnect \/ Register \/ SetReady \/ AtExit \/ OnPreShutdown \/ OnShutdown

HooksSpec == HooksInit /\ [][HooksNext]_vars

\* ------------------------------------------------------------------ rate limiter, one call

MaxBatch == 2
MaxSent == 3
MaxRequests == 5

\* data[:stop] of Python on a sequence.
SliceTo(data, stop) ==
    LET n == IF stop >= 0 THEN (IF stop < Len(data) THEN stop ELSE Len(data))
             ELSE (IF Len(data) + stop > 0 THEN Len(data) + stop ELSE 0)
    IN SubSeq(data, 1, n)

\* data[start:] of Python on a sequence.
SliceFrom(data, start) ==
    LET n == IF start >= 0 THEN (IF start < Len(data) THEN start ELSE Len(data))
             ELSE (IF Len(data) + start > 0 THEN Len(data) + start ELSE 0)
    IN SubSeq(data, n + 1, Len(data))

\* The sizes int(size) of monit.py 59 yields for the rate_limit strings
\* "-1/1s" to "<MaxBatch>/1s".
BatchSizes == -1..MaxBatch

\* One call of MonitMetricOutput on a frame, alone: operand holds the
\* batch size, the counter, the frame, what is left of it and the slices
\* handed to _http_call; step counts the requests, up to MaxRequests.
MonitInit ==
    /\ NoRun("monit")
    /\ \E batch_size \in BatchSizes, n \in 0..MaxSent :
          \E frame_filled \in 0..(IF batch_size > 0 THEN batch_size ELSE 0) :
             operand = [batch_size |-> batch_size, frame_filled |-> frame_filled,
                        frame |-> [k \in 1..n |-> k], data |-> [k \in 1..n |-> k],
                        sent |-> <<>>, at |-> "while"]
    /\ step = 0
    /\ returned = <<>>

MonitVars ==
    <<returned, conf, state, pc, retries, exec_count, last_module, static_data,
      finished_data, received, frozen_data, pending, calls, exc>>

\* One pass of the while loop: the locked block and the request, after
\* which the call is at next; empty slices are requests too.
MonitStep(next) ==
    /\ operand.at = "while"
    /\ Len(operand.data) > 0
    /\ LET left == operand.batch_size - operand.frame_filled
           rolls == left < Len(operand.data)
           available == IF rolls THEN operand.batch_size ELSE left
           data_slice == SliceTo(operand.data, available)
       IN operand' = [operand EXCEPT
             !.frame_filled = (IF rolls THEN 0 ELSE @) + Len(data_slice),
             !.data = SliceFrom(operand.data, available),
             !.sent = IF data_slice = <<>> THEN @ ELSE Append(@, data_slice),
             !.at = next]
    /\ step' = IF step < MaxRequests THEN step + 1 ELSE step
    /\ UNCHANGED MonitVars

\* A pass whose request returns.
MonitPass == MonitStep("while")

\* A pass whose request raises.
MonitRaise == MonitStep("raised")

\* The loop ends: len(data) is 0.
MonitReturn ==
    /\ operand.at = "while"
    /\ Len(operand.data) = 0
    /\ operand' = [operand EXCEPT !.at = "returned"]
    /\ UNCHANGED <<step, MonitVars>>

MonitNext == MonitPass \/ MonitRaise \/ MonitReturn

MonitSpec == MonitInit /\ [][MonitNext]_vars

\* The thread of the call is scheduled again and again; no request is bound
\* to raise.
MonitFairSpec == MonitSpec /\ WF_vars(MonitPass \/ MonitReturn)

\* ------------------------------------------------------------------ dispatch

\* The inputs of a flow: a source of one or two tasks, or StreamletMetrics
\* with its single task; each with its own and its tasks' enabled switch.
DispatchInputs ==
    { [cls |-> "debug", enabled |-> e, tasks |-> tasks] :
        e \in BOOLEAN, tasks \in UNION { [1..n -> BOOLEAN] : n \in 1..2 } }
    \cup
    { [cls |-> "streamletmetrics", enabled |-> e, tasks |-> <<t>>] :
        e \in BOOLEAN, t \in BOOLEAN }

\* StreamletFlow.get_tasks(): the tasks of all inputs as (input, task) pairs.
RECURSIVE get_tasks(_, _)
get_tasks(inputs, i) ==
    IF i > Len(inputs) THEN <<>>
    ELSE [k \in 1..Len(inputs[i].tasks) |-> <<i, k>>] \o get_tasks(inputs, i + 1)

\* StreamletTaskBlueprint.enabled, set in __init__.
TaskEnabled(inputs, t) == inputs[t[1]].tasks[t[2]] /\ inputs[t[1]].enabled

\* on_init registers the tasks, and the worker later shuts down: operand
\* holds the inputs, Settings.run_once, the place of the program and the
\* dispatches made as (mode, input, task); step is the loop index.
DispatchInit ==
    /\ NoRun("dispatch")
    /\ \E n \in 1..MaxInputs, run_once \in BOOLEAN :
          \E inputs \in [1..n -> DispatchInputs] :
             operand = [inputs |-> inputs, run_once |-> run_once, at |-> "on_init",
                        dispatched |-> <<>>]
    /\ step = 0
    /\ returned = <<>>

DispatchVars ==
    <<returned, conf, state, pc, retries, exec_count, last_module, static_data,
      finished_data, received, frozen_data, pending, calls, exc>>

\* One pass of `for t in self.get_tasks(): t.register()`.
RegisterTask ==
    /\ operand.at = "on_init"
    /\ LET tasks == get_tasks(operand.inputs, 1)
       IN IF step = Len(tasks)
          THEN operand' = [operand EXCEPT !.at = "running"] /\ step' = 0
          ELSE /\ step' = step + 1
               /\ IF TaskEnabled(operand.inputs, tasks[step + 1])
                  THEN operand' = [operand EXCEPT !.dispatched =
                          Append(@, <<IF operand.run_once THEN "delay" ELSE "periodic",
                                      tasks[step + 1][1], tasks[step + 1][2]>>)]
                  ELSE UNCHANGED operand
    /\ UNCHANGED DispatchVars

\* One pass of the on_pre_shutdown loop of shutdown(): the hook of
\* StreamletMetrics applies its task.
PreShutdownHook ==
    /\ operand.at = "running"
    /\ IF step = Len(operand.inputs)
       THEN operand' = [operand EXCEPT !.at = "on_shutdown"] /\ step' = 0
       ELSE /\ step' = step + 1
            /\ IF /\ operand.inputs[step + 1].enabled
                  /\ operand.inputs[step + 1].cls = "streamletmetrics"
               THEN operand' = [operand EXCEPT !.dispatched =
                                   Append(@, <<"apply", step + 1, 1>>)]
               ELSE UNCHANGED operand
    /\ UNCHANGED DispatchVars

DispatchNext == RegisterTask \/ PreShutdownHook

DispatchSpec == DispatchInit /\ [][DispatchNext]_vars

\* ------------------------------------------------------------------ module validation

conf_tasks == {"include_tasks", "exclude_tasks"}
conf_inputs == {"include_inputs", "exclude_inputs"}

\* Mutant of validate_count: any number of the keys passes.
validate_count_any(v, keys, _min, _max) == TRUE

\* KeyCount.validate_count(v): the number of the keys present in v lies
\* within the range, a key set to null being present.
validate_count(v, keys, _min, _max) ==
    LET count == Cardinality({ key \in keys : v[key] # "absent" })
        upper == IF _max < Cardinality(keys) THEN _max ELSE Cardinality(keys)
    IN _min <= count /\ count <= upper

\* The module configurations: the category of the module's class, its
\* enabled switch, and each filter key absent, null or a list.
ModuleEntries ==
    [category : {"input", "transform", "output"}, enabled : BOOLEAN,
     filters : [conf_tasks \cup conf_inputs -> {"absent", "null", "list"}]]

\* ModuleValidator.validate on one entry: Invalid, or the validated entry,
\* in which a processor's absent filter keys are filled in with None; the
\* entry of a disabled module is returned as it is under
\* skip_disabled_validation, and an input takes no filter key at all.
ValidateModule(value, skip_disabled_validation) ==
    IF skip_disabled_validation /\ ~value.enabled
    THEN [ok |-> TRUE, v |-> value]
    ELSE IF value.category = "input"
    THEN [ok |-> \A key \in DOMAIN value.filters : value.filters[key] = "absent", v |-> value]
    ELSE IF /\ validate_count(value.filters, conf_tasks, 0, 1)
            /\ validate_count(value.filters, conf_inputs, 0, 1)
    THEN [ok |-> TRUE,
          v |-> [value EXCEPT !.filters =
                    [key \in DOMAIN value.filters |->
                       IF value.filters[key] = "absent" THEN "null" ELSE value.filters[key]]]]
    ELSE [ok |-> FALSE, v |-> value]

\* The validation of one module entry: operand holds the entry and
\* Settings.skip_disabled_validation, returned the outcome.
FiltersInit ==
    /\ NoRun("validate")
    /\ operand \in [value : ModuleEntries, skip_disabled_validation : BOOLEAN]
    /\ step = 0
    /\ returned = <<>>

ValidateEntry ==
    /\ step = 0
    /\ step' = 1
    /\ returned' = <<ValidateModule(operand.value, operand.skip_disabled_validation)>>
    /\ UNCHANGED <<operand, conf, state, pc, retries, exec_count, last_module, static_data,
                   finished_data, received, frozen_data, pending, calls, exc>>

FiltersNext == ValidateEntry

FiltersSpec == FiltersInit /\ [][FiltersNext]_vars

\* ------------------------------------------------------------------ recent task ids, retries

\* The largest task_id_queue_size, the runs sent to the worker, the retries
\* of one run and the tasks built.
MaxQueued == 2
MaxStarted == 3
MaxRetried == 1
MaxTasks == 2

\* A test that takes every attempt for the first.
FirstAttemptAlways(n) == TRUE

\* not self.request.retries
FirstAttempt(n) == n = 0

\* The worker with its runs: operand holds Settings.task_id_queue_size,
\* LAST_TASK_IDS (None before the first task is built), for every run where
\* it is and its request.retries, and the identifiers appended so far, in
\* order; step counts the tasks built.
QueueInit ==
    /\ NoRun("queue")
    /\ \E size \in -1..MaxQueued :
          operand = [size |-> size,
                     LAST_TASK_IDS |-> None,
                     at |-> [r \in 1..MaxStarted |-> "queued"],
                     retries |-> [r \in 1..MaxStarted |-> 0],
                     log |-> <<>>]
    /\ step = 0
    /\ exc = "none"
    /\ returned = <<>>

QueueVars ==
    <<returned, conf, state, pc, retries, exec_count, last_module, static_data,
      finished_data, received, frozen_data, pending, calls>>

\* StreamletTask.__new__, before the worker starts: the first task built
\* creates deque(maxlen=Settings.task_id_queue_size), which raises
\* ValueError for a negative maxlen.
NewTask ==
    /\ pc = "queue" /\ exc = "none"
    /\ step < MaxTasks
    /\ operand.log = <<>>
    /\ \A r \in 1..MaxStarted : operand.at[r] = "queued"
    /\ step' = step + 1
    /\ IF operand.LAST_TASK_IDS.set
       THEN UNCHANGED <<operand, exc>>
       ELSE IF operand.size < 0
       THEN exc' = "ValueError" /\ UNCHANGED operand
       ELSE /\ operand' = [operand EXCEPT !.LAST_TASK_IDS = List(<<>>)]
            /\ UNCHANGED exc
    /\ UNCHANGED QueueVars

\* before_start of an attempt of a run: the first attempt appends
\* (datetime.now(...), task_id), every attempt then runs.
RunBeforeStart ==
    /\ pc = "queue" /\ exc = "none"
    /\ operand.LAST_TASK_IDS.set
    /\ \E r \in 1..MaxStarted :
          /\ operand.at[r] = "queued"
          /\ operand' =
                IF FirstAttempt(operand.retries[r])
                THEN [operand EXCEPT
                        !.LAST_TASK_IDS =
                            List(DequeAppend(@.items, [d |-> Len(operand.log), t |-> r],
                                             operand.size)),
                        !.log = Append(@, r),
                        !.at[r] = "running"]
                ELSE [operand EXCEPT !.at[r] = "running"]
    /\ UNCHANGED <<step, exc, QueueVars>>

\* run: raise self.retry(throw=False, exc=e); the run is sent again with
\* request.retries one higher.
RunRetry ==
    /\ pc = "queue" /\ exc = "none"
    /\ \E r \in 1..MaxStarted :
          /\ operand.at[r] = "running"
          /\ operand.retries[r] < MaxRetried
          /\ operand' = [operand EXCEPT !.at[r] = "queued", !.retries[r] = @ + 1]
    /\ UNCHANGED <<step, exc, QueueVars>>

\* run: return code, or the retries are exhausted.
RunReturn ==
    /\ pc = "queue" /\ exc = "none"
    /\ \E r \in 1..MaxStarted :
          /\ operand.at[r] = "running"
          /\ operand' = [operand EXCEPT !.at[r] = "done"]
    /\ UNCHANGED <<step, exc, QueueVars>>

QueueNext == NewTask \/ RunBeforeStart \/ RunRetry \/ RunReturn

QueueSpec == QueueInit /\ [][QueueNext]_vars

\* ------------------------------------------------------------------ properties

Terminal == {"FINISHED", "SKIPPED", "FAILED", "PROPAGATED"}

\* The names of the calls of one kind in this attempt, in order.
Called(kind) ==
    LET cs == SelectSeq(calls, LAMBDA c : c.kind = kind)
    IN [i \in 1..Len(cs) |-> cs[i].name]

HasCall(kind) == \E i \in 1..Len(calls) : calls[i].kind = kind

\* The declared transform of a name.
DeclaredAs(name) == declared[CHOOSE i \in 1..Len(declared) : declared[i].name = name]

\* The names of the declared transforms the routing accepts for the task.
AcceptedTransformNames ==
    { declared[i].name : i \in { j \in 1..Len(declared) :
        accepts_from(declared[j], Input.name, task.name, FALSE, settings.disable_outputs) } }

AcceptedOutputNames ==
    { outputs[i].name : i \in { j \in 1..Len(outputs) :
        accepts_from(outputs[j], Input.name, task.name, FALSE, settings.disable_outputs) } }

\* C1: a run with max_retries = n whose attempts all raise (no control
\* exception) invokes streamlet_exec n+1 times and then is FAILED: FAILED is
\* reached with exactly n+1 invocations made, and until then every failed
\* attempt leaves the run RETRYING with another attempt to come.
C1_FailedAfterBudget ==
    /\ state = "FAILED" => exec_count = max_retries + 1 /\ retries = max_retries
    /\ state = "RETRYING" =>
          /\ exec_count = retries
          /\ exec_count <= max_retries
          /\ ENABLED BeforeStart
    /\ (pc = "raised" /\ exc = "error") => exec_count = retries + 1

C1_Witness == state = "FAILED" /\ max_retries = 2 /\ exec_count = 3

\* C2: the transforms invoked in an attempt are transforms the routing
\* accepts for (source, task), each invoked once, in non-increasing order of
\* priority whatever the order of declaration; once the transform loop has
\* ended (the frame is frozen), every accepted transform has been invoked.
C2_TransformOrder ==
    LET invoked == Called("transform")
    IN /\ \A i \in 1..Len(invoked) : invoked[i] \in AcceptedTransformNames
       /\ \A i, j \in 1..Len(invoked) : i # j => invoked[i] # invoked[j]
       /\ \A i, j \in 1..Len(invoked) :
             i < j => DeclaredAs(invoked[i]).priority >= DeclaredAs(invoked[j]).priority
       /\ HasCall("freeze") =>
             { invoked[i] : i \in 1..Len(invoked) } = AcceptedTransformNames

C2_Witness ==
    /\ HasCall("freeze")
    /\ Len(declared) = 2
    /\ declared[1].priority = -5
    /\ declared[2].priority = 5
    /\ Called("transform") = <<declared[2].name, declared[1].name>>

\* C3: in an attempt that reaches a sink the frame is frozen after the last
\* accepted transform has returned and before the first sink is invoked: no
\* sink call precedes the freeze, no transform call follows it, and a sink is
\* only ever called while the frame is frozen.
C3_FreezeBetween ==
    /\ \A i, j \in 1..Len(calls) :
          i < j => /\ ~(calls[i].kind = "output" /\ calls[j].kind \in {"freeze", "transform"})
                   /\ ~(calls[i].kind = "freeze" /\ calls[j].kind = "transform")
    /\ HasCall("output") => HasCall("freeze") /\ static_data.frozen
    /\ HasCall("freeze") => Len(Called("transform")) = Cardinality(AcceptedTransformNames)
    /\ (pc = "sinks") => static_data.frozen

C3_Witness ==
    /\ Len(Called("transform")) = 2
    /\ Len(Called("output")) = 2
    /\ state = "FINISHED"

C5_FreezeOneWay ==
    /\ [](pc = "frame" /\ calls # <<>> /\ static_data.frozen
            /\ calls[1].kind \in {"append", "setslice", "setitem"}
          => exc # "none")
    /\ [][pc = "frame" /\ calls' # <<>> =>
            LET op == calls'[1].kind
                valid(m) == MetricValid(m, settings.allow_none_metric)
            IN /\ static_data.frozen => (static_data' = static_data)
               /\ (~static_data.frozen /\ op = "append" /\ valid(pending'[1]))
                     => (exc' = "none"
                         /\ static_data'.metrics
                               = Append(static_data.metrics, pending'[1]))
               /\ (~static_data.frozen /\ op = "setslice"
                     /\ \A i \in 1..Len(pending') : valid(pending'[i]))
                     => (exc' = "none" /\ static_data'.metrics = pending')]_vars

C5_Witness ==
    /\ pc = "frame"
    /\ calls = <<Call("append", <<>>)>>
    /\ static_data.frozen
    /\ exc = "TypeError"
    /\ Len(static_data.metrics) = 1
    /\ finished_data.id = 2

\* C6: an attempt whose frame holds no Metric after extraction finishes as
\* SKIPPED having called the source and nothing else, and an attempt that
\* goes on to the transforms holds at least one Metric.
C6_SkippedWhenEmpty ==
    /\ (pc = "return_skipped" \/ state = "SKIPPED") =>
          /\ Len(static_data.metrics) = 0
          /\ calls = <<Call("input", Input.name)>>
    /\ (pc = "transforms" /\ ~HasCall("transform")) => Len(static_data.metrics) > 0

C6_Witness ==
    /\ state = "SKIPPED"
    /\ AcceptedTransformNames # {}
    /\ AcceptedOutputNames # {}

\* C7: once the source call, the extraction or a transform has raised, the
\* attempt calls no further module: the raising call stays the last call of
\* the attempt, and no sink (nor the freeze) is among the attempt's calls.
C7_AbortOnRaise ==
    /\ [](exc # "none" /\ Last(calls).kind \in {"input", "transform"} =>
             /\ ~HasCall("output")
             /\ ~HasCall("freeze")
             /\ pc \in {"raised", "idle"})
    /\ [][(exc # "none" /\ exc' # "none") => calls' = calls]_vars

C7_Witness ==
    /\ state = "FAILED"
    /\ max_retries > 0
    /\ Last(calls).kind = "transform"
    /\ Len(Called("transform")) < Cardinality(AcceptedTransformNames)
    /\ AcceptedOutputNames # {}

\* C8: a control exception raised in an attempt is raised on by run(): the
\* run ends there, no retry is requested and the retry counter is not
\* advanced, with budget left or not; no attempt follows.
C8_ControlBypassesRetry ==
    /\ [][(pc = "raised" /\ exc = "control") =>
             (state' = "PROPAGATED" /\ retries' = retries /\ exec_count' = exec_count)]_vars
    /\ [][state = "PROPAGATED" => (state' = "PROPAGATED" /\ exec_count' = exec_count)]_vars

C8_Witness == state = "PROPAGATED" /\ retries < max_retries

\* C9: every run reaches a terminal state (FINISHED, SKIPPED, FAILED, or the
\* end by a propagated control exception), after at most 1 + max_retries
\* attempts, and a terminal state is never left.
C9_Terminates ==
    /\ [](exec_count <= max_retries + 1)
    /\ [][(state \in Terminal) => (state' = state)]_vars
    /\ <>(state \in Terminal)

C9_Witness == state = "FINISHED" /\ retries = max_retries /\ max_retries > 0

\* C10: in every frame of a run (after extraction with the static attributes
\* merged in, after the transforms' writes, and in the sinks' copies) no
\* Metric's attributes contain the key named by its metric field name.
C10_NoFieldInAttributes ==
    \A f \in {static_data, received, finished_data} :
        \A i \in 1..Len(f.metrics) : ~AttributesHoldField(f.metrics[i])

\* The same, for the tasks whose static attributes name no metric field.
C10_HoldsWithoutStaticClash ==
    (\A i \in 1..Len(task.static_attributes) :
        ~AnyMatch(task.static_attributes[i].k, task.result.metrics))
    => C10_NoFieldInAttributes

\* The source result of an extraction run.
TheResult == CHOOSE result \in task.results : TRUE

\* The flattened keys of a record, joined by the separator, in record order.
RecordKeys(rec) == DKeys(JoinedKeys(flatten(rec, <<>>)))

\* The flattened keys of a record that some metric pattern matches.
MatchedKeys(rec) == SelectSeq(RecordKeys(rec), LAMBDA k : AnyMatch(k, task.result.metrics))

\* The Metrics of the frame that carry a value's field name.
FieldMetrics == SelectSeq(static_data.metrics, LAMBDA m : m.metric_field_name # NoneKey)

RECURSIVE MatchedBefore(_, _)
MatchedBefore(result, r) ==
    IF r = 0 THEN 0 ELSE MatchedBefore(result, r - 1) + Len(MatchedKeys(result[r]))

\* One Metric for each (record, matched key) pair, record after record; each
\* Metric of a record without that record's matched keys in its attributes
\* and with its unmatched keys.
OnePerMatchedKey ==
    LET result == TheResult
        ms == FieldMetrics
    IN /\ Len(ms) = MatchedBefore(result, Len(result))
       /\ \A r \in 1..Len(result) :
             LET matched == MatchedKeys(result[r])
                 seg == [j \in 1..Len(matched) |-> ms[MatchedBefore(result, r - 1) + j]]
             IN /\ {seg[j].metric_field_name : j \in 1..Len(seg)}
                      = {matched[j] : j \in 1..Len(matched)}
                /\ \A j \in 1..Len(seg), i \in 1..Len(RecordKeys(result[r])) :
                      LET k == RecordKeys(result[r])[i]
                          held == TreeHas(seg[j].attributes, Split(k, nested_attr_seperator))
                      IN IF AnyMatch(k, task.result.metrics) THEN ~held ELSE held

\* C11: process_result appends exactly one Metric per (record, matched metric
\* key) pair, in record order; every Metric of a record has none of the
\* record's matched keys in its attributes and retains every unmatched key.
C11_OnePerMatchedKey == (pc = "extracted" /\ exc = "none") => OnePerMatchedKey

\* The same, for the configurations without an attribute allow-list and
\* without a static attribute that a metric pattern matches.
C11_HoldsWithoutAllowListOrClash ==
    (/\ pc = "extracted" /\ exc = "none"
     /\ ~task.result.attributes.set
     /\ \A i \in 1..Len(task.static_attributes) :
           ~AnyMatch(task.static_attributes[i].k, task.result.metrics))
    => OnePerMatchedKey

\* The index of the first metric pattern that matches a key.
FirstPattern(k) ==
    CHOOSE i \in 1..Len(task.result.metrics) :
        /\ fnmatch(k, task.result.metrics[i])
        /\ \A j \in 1..(i - 1) : ~fnmatch(k, task.result.metrics[j])

\* C12: extraction from a record yields each flattened key at most once, also
\* where several patterns match it: the patterns are evaluated in list order,
\* a key goes to the first pattern that matches it and no later pattern sees
\* it again (so extraction does not fail on a key already taken).
C12_EachKeyOnce ==
    pc = "extracted" =>
        LET result == TheResult
            ms == FieldMetrics
        IN /\ exc = "none"
           /\ Len(ms) = MatchedBefore(result, Len(result))
           /\ \A r \in 1..Len(result) :
                 LET n == Len(MatchedKeys(result[r]))
                     seg == [j \in 1..n |-> ms[MatchedBefore(result, r - 1) + j]]
                 IN /\ \A i, j \in 1..n :
                          i # j => seg[i].metric_field_name # seg[j].metric_field_name
                    /\ \A i, j \in 1..n :
                          i < j => FirstPattern(seg[i].metric_field_name)
                                      <= FirstPattern(seg[j].metric_field_name)

C12_Witness ==
    /\ pc = "extracted"
    /\ task.result.metrics = << <<"a">>, <<"a", "*">> >>
    /\ Len(TheResult) = 1
    /\ [i \in 1..Len(FieldMetrics) |-> FieldMetrics[i].metric_field_name]
          = << <<"a">>, <<"a", "b">> >>

\* The records of the result that no metric pattern matches.
UnmatchedRecords == SelectSeq(TheResult, LAMBDA rec : MatchedKeys(rec) = <<>>)

\* The Metrics of the frame that carry no value.
NoneMetrics == SelectSeq(static_data.metrics, LAMBDA m : m.metric_field_name = NoneKey)

C14_AcceptsFrom ==
    (pc = "accepts_from" /\ returned # <<>>) =>
        LET c == operand
            f == c.mod
        IN /\ returned[1] =
                 (/\ Enabled(f, c.disable_outputs) \/ c.ignore_enabled
                  /\ ~f.include_inputs.set \/ AnyMatch(c.input_name, f.include_inputs.items)
                  /\ ~(f.exclude_inputs.set /\ AnyMatch(c.input_name, f.exclude_inputs.items))
                  /\ ~f.include_tasks.set \/ AnyMatch(c.task_name, f.include_tasks.items)
                  /\ ~(f.exclude_tasks.set /\ AnyMatch(c.task_name, f.exclude_tasks.items)))
           /\ returned[1] = accepts_from(f, c.input_name, c.task_name, c.ignore_enabled,
                                         c.disable_outputs)
           /\ ~returned[1] =>
                 /\ Rejects(step, c)
                 /\ \A i \in 1..(step - 1) : ~Rejects(i, c)

C14_Witness ==
    /\ pc = "accepts_from"
    /\ operand.mod.include_tasks = List(<< <<"f", "o", "o", "*">> >>)
    /\ operand.mod.exclude_tasks = List(<<Foobar>>)
    /\ operand.task_name = Foobar
    /\ returned = <<FALSE>>
    /\ step = 5

\* Whether a document holds a module list, the list, and the name of an
\* item (0 for an item without one).
HasInput(doc) ==
    doc.t = "map" /\ DHas(doc.d, <<"input">>) /\ DGet(doc.d, <<"input">>).t = "list"
InputOf(doc) == DGet(doc.d, <<"input">>).d
NameOf(item) ==
    IF item.t = "map" /\ DHas(item.d, <<"name">>) THEN DGet(item.d, <<"name">>).n ELSE 0

\* The list r is the list b with the list e merged into it: the items of e
\* whose name an item of b carries are merged into that item, which stays
\* where it is; the other items of e follow the items of b, in their order;
\* the items of b that no item of e names are as they were.
MergedList(b, e, r) ==
    LET Matched(x) == NameOf(x) # 0 /\ \E i \in 1..Len(b) : NameOf(b[i]) = NameOf(x)
        appended == SelectSeq(e, LAMBDA x : ~Matched(x))
    IN /\ Len(r) = Len(b) + Len(appended)
       /\ SubSeq(r, Len(b) + 1, Len(r)) = appended
       /\ \A i \in 1..Len(b) :
             IF \E j \in 1..Len(e) : NameOf(e[j]) # 0 /\ NameOf(e[j]) = NameOf(b[i])
             THEN LET x == e[CHOOSE j \in 1..Len(e) : NameOf(e[j]) = NameOf(b[i])]
                  IN /\ r[i].t = "map"
                     /\ \A n \in 1..Len(x.d) :
                           DHas(r[i].d, x.d[n].k) /\ DGet(r[i].d, x.d[n].k) = x.d[n].v
                     /\ \A n \in 1..Len(b[i].d) :
                           ~DHas(x.d, b[i].d[n].k) =>
                              /\ DHas(r[i].d, b[i].d[n].k)
                              /\ DGet(r[i].d, b[i].d[n].k) = b[i].d[n].v
                     /\ Len(r[i].d) = Cardinality({x.d[n].k : n \in 1..Len(x.d)}
                                          \cup {b[i].d[n].k : n \in 1..Len(b[i].d)})
             ELSE r[i] = b[i]

\* C15: merging an extension list into a base list merges each named
\* extension item into the base item of the same name, in place, appends the
\* extension items no base item matches, and leaves the other base items at
\* their position with their content.
C15_ListMerge ==
    [][(pc = "extensions" /\ calls' # calls
          /\ HasInput(returned) /\ HasInput(operand.extends[Len(operand.extends) - step]))
       => (HasInput(returned')
           /\ MergedList(InputOf(returned),
                         InputOf(operand.extends[Len(operand.extends) - step]),
                         InputOf(returned')))]_vars

C15_Witness ==
    /\ calls = <<1>>
    /\ Len(operand.extends) = 1
    /\ HasInput(operand.configuration)
    /\ InputOf(operand.configuration) = <<Named(1, <<>>), Named(2, <<>>)>>
    /\ HasInput(returned)
    /\ InputOf(returned)
          = <<Named(1, <<Entry(<<"x">>, Num(1))>>), Named(2, <<>>), Named(3, <<>>)>>

\* C16: with no extension declared in the header, the configuration that
\* reaches the final validation is the base configuration as it was read,
\* nothing having been merged, and the settings are those of its header.
C16_NoExtensionsUnchanged ==
    (pc \in {"validate", "validated"} /\ operand.extends = <<>>) =>
        /\ returned = operand.configuration
        /\ calls = <<>>
        /\ step = 0
        /\ settings = SettingsExtend([allow_none_metric |-> FALSE, disable_outputs |-> FALSE],
                                     operand.configuration)

C16_Witness ==
    /\ pc = "validated"
    /\ operand.extends = <<>>
    /\ HasInput(returned)
    /\ Len(InputOf(returned)) = 2

\* The positions of the declared extension documents that set the scalar x.
SettersOfX ==
    { i \in 1..Len(operand.extends) :
        /\ DHas(operand.extends[i].d, <<"x">>)
        /\ DGet(operand.extends[i].d, <<"x">>).t = "num" }

RECURSIVE Decreasing(_)
Decreasing(positions) ==
    Len(positions) < 2 \/ (positions[1] > positions[2] /\ Decreasing(Tail(positions)))

\* C17: the extension files are merged in the reverse of their declared
\* order (the last declared first, the first declared last), and a scalar
\* that several of them set ends with the value of the earliest declared
\* file that sets it.
C17_EarlierExtensionWins ==
    /\ pc \in {"extensions", "validate", "validated", "raised"} => Decreasing(calls)
    /\ (pc \in {"validate", "validated"} /\ SettersOfX # {}) =>
          LET first == CHOOSE i \in SettersOfX : \A j \in SettersOfX : i <= j
          IN /\ DHas(returned.d, <<"x">>)
             /\ DGet(returned.d, <<"x">>) = DGet(operand.extends[first].d, <<"x">>)

C17_Witness ==
    /\ pc = "validated"
    /\ calls = <<2, 1>>
    /\ SettersOfX = {1, 2}
    /\ DGet(operand.extends[1].d, <<"x">>) # DGet(operand.extends[2].d, <<"x">>)

\* C18: expanding a value terminates in every environment: the value is
\* expanded again until an expansion leaves it as it is, and that fixed point
\* is returned; an expansion that is still changing the value after depth 16
\* raises a validation error, and nothing is returned.
C18_ExpansionTerminates ==
    /\ <>(returned # <<>> \/ exc = "ValueInvalid")
    /\ [](step <= max_depth_default + 1)
    /\ [](returned # <<>> =>
            /\ exc = "none"
            /\ returned[1] = operand.current
            /\ expandvars(returned[1], operand.environ) = returned[1])
    /\ [](exc = "ValueInvalid" => (step = max_depth_default + 1 /\ returned = <<>>))

C18_Witness ==
    /\ pc = "expand"
    /\ operand.environ = [A |-> List(<<Ref("B")>>), B |-> List(<<Lit("x")>>)]
    /\ operand.value = <<Ref("A")>>
    /\ returned = << <<Lit("x")>> >>
    /\ step = 2

\* An expansion that goes round in a circle raises.
C18_WitnessRaise ==
    /\ pc = "expand"
    /\ operand.environ = [A |-> List(<<Ref("B")>>), B |-> List(<<Ref("A")>>)]
    /\ operand.value = <<Ref("A")>>
    /\ exc = "ValueInvalid"

\* The factor of a unit, in thousandths of a second: ms 0.001, s 1, m 60,
\* h 3600, d 86400.
UnitFactor(unit) ==
    CASE unit = <<"m", "s">> -> 1 [] unit = <<"s">> -> 1000 [] unit = <<"m">> -> 60000
      [] unit = <<"h">> -> 3600000 [] unit = <<"d">> -> 86400000

KnownUnit(unit) == unit \in { <<"m", "s">>, <<"s">>, <<"m">>, <<"h">>, <<"d">> }

RECURSIVE TokenSum(_)
TokenSum(tokens) ==
    IF tokens = <<>> THEN 0
    ELSE (tokens[1].n * UnitFactor(tokens[1].unit)) \div tokens[1].den
         + TokenSum(Tail(tokens))

\* The string is made of <number><unit> tokens only.
AllTokens(tokens) == \A i \in 1..Len(tokens) : tokens[i].token

DurationOver == pc = "duration" /\ (returned # <<>> \/ exc # "none")

\* What the sum over the tokens comes to: the signed sum of number times
\* unit factor, or a validation error for an unknown unit.
DurationOfTokens ==
    IF \A i \in 1..Len(operand.tokens) : KnownUnit(operand.tokens[i].unit)
    THEN returned = << (IF operand.neg THEN -1 ELSE 1) * TokenSum(operand.tokens) >>
    ELSE returned = <<>> /\ exc = "ValueInvalid"

\* C19: a literal is returned as the number it denotes; a string of
\* <number><unit> tokens gives the sum of number times unit factor, negated
\* after a leading "-"; a token with an unknown unit is a validation error.
C19_Duration ==
    DurationOver =>
        /\ operand.literal => returned = <<operand.ms>>
        /\ ~operand.literal /\ AllTokens(operand.tokens) => DurationOfTokens

\* The same, for the strings whose tokens have whole numbers.
C19_HoldsForWholeNumbers ==
    (/\ DurationOver
     /\ \A i \in 1..Len(operand.tokens) : operand.tokens[i].den = 1)
    => /\ operand.literal => returned = <<operand.ms>>
       /\ ~operand.literal /\ AllTokens(operand.tokens) => DurationOfTokens

\* The lists of a task's repetition key.
ListsOf(cfg) ==
    Map([k \in 1..Len(DGet(cfg.d, repeat_for).d) |->
           Entry(DGet(cfg.d, repeat_for).d[k].k, AlwaysList(DGet(cfg.d, repeat_for).d[k].v))])

EqualLength(cfg) ==
    \A k \in 1..Len(ListsOf(cfg).d) : Len(ListsOf(cfg).d[k].v.d) = Len(ListsOf(cfg).d[1].v.d)

\* What stands in the place of one piece in the j-th task. As stated, the
\* placeholders are the pieces ${name}; as amended, ${name} and $name for
\* a name that is an identifier, and $$ stands for $.
ExpectedPiece(piece, lists, j, amended) ==
    LET placeholder ==
            IF amended
            THEN piece.kind \in {"braced", "named"} /\ IsIdentifier(piece.s)
            ELSE piece.kind = "braced"
    IN CASE placeholder /\ piece.s = <<"i">> -> StrOf(j)
         [] placeholder /\ piece.s # <<"i">> /\ DHas(lists.d, piece.s) ->
                DGet(lists.d, piece.s).d[j + 1].d
         [] amended /\ piece.kind = "escaped" -> <<Text(<<"$">>)>>
         [] OTHER -> <<piece>>

RECURSIVE ExpectedString(_, _, _, _)
ExpectedString(s, lists, j, amended) ==
    IF s = <<>> THEN <<>>
    ELSE ExpectedPiece(s[1], lists, j, amended)
         \o ExpectedString(Tail(s), lists, j, amended)

\* A configuration with every string leaf replaced.
RECURSIVE ExpectedValue(_, _, _, _)
ExpectedValue(value, lists, j, amended) ==
    CASE value.t = "str" -> Str(ExpectedString(value.d, lists, j, amended))
      [] value.t = "map" ->
            Map([k \in 1..Len(value.d) |->
                   Entry(value.d[k].k, ExpectedValue(value.d[k].v, lists, j, amended))])
      [] value.t = "list" ->
            Lst([k \in 1..Len(value.d) |-> ExpectedValue(value.d[k], lists, j, amended)])
      [] OTHER -> value

\* The tasks one task of the configuration stands for: itself without the
\* repetition key, and with it one task per index of the lists.
ExpectedTasks(cfg, amended) ==
    IF ~Repeats(cfg) THEN <<ValidateTask(cfg).v>>
    ELSE [j \in 1..Len(ListsOf(cfg).d[1].v.d) |->
            ValidateTask(ExpectedValue(cfg, ListsOf(cfg), j - 1, amended)).v]

RECURSIVE ExpectedResults(_, _)
ExpectedResults(config, amended) ==
    IF config = <<>> THEN <<>>
    ELSE ExpectedTasks(config[1], amended) \o ExpectedResults(Tail(config), amended)

RepeatDone == pc = "repeat" /\ exc = "none" /\ step = Len(operand.config)

\* No task with lists of unequal length is expanded: the call stops at it
\* with a validation error.
UnequalRaises ==
    pc = "repeat" =>
        \A k \in 1..Len(operand.config) :
            Repeats(operand.config[k]) /\ ~EqualLength(operand.config[k]) =>
                /\ step < k
                /\ step = k - 1 /\ exc # "none" => exc = "Invalid"

\* C20 as stated: a task with lists of length n expands to n tasks, the
\* j-th with each ${name} replaced by the j-th value of the list called
\* name and ${i} by j, and every other placeholder left verbatim; lists of
\* unequal length are a validation error.
C20_RepeatAsStated ==
    /\ UnequalRaises
    /\ RepeatDone => returned = ExpectedResults(operand.config, FALSE)

\* C20, amended: a task with lists of length n expands to n tasks, the
\* j-th with each ${name} and $name whose name is an identifier replaced by
\* j for the name i and else by the j-th value of the list called name, and
\* each $$ by $; every other placeholder is left verbatim; lists of unequal
\* length are a validation error.
C20_Repeat ==
    /\ UnequalRaises
    /\ RepeatDone => returned = ExpectedResults(operand.config, TRUE)

\* A task with two lists of two values and a leaf "$${a}" has expanded to
\* two tasks.
C20_Witness ==
    /\ RepeatDone
    /\ Len(operand.config) = 1
    /\ Repeats(operand.config[1])
    /\ Len(ListsOf(operand.config[1]).d) = 2
    /\ DGet(DGet(operand.config[1].d, <<"params">>).d, <<"url">>).d[1] = Escaped
    /\ Len(returned) = 2

\* The keys set by a flag.
FlagKeys(keys) == { keys[k] : k \in 1..Len(keys) }

\* C21: a call of set or extend leaves every persistent key persistent and
\* its value as it was, and a call of set for a key that is not persistent,
\* with a value of the key's type, leaves the key with that value.
C21_PersistentKept ==
    [][ (pc = "settings" /\ operand'.last.op \in {"set", "extend"}) =>
          /\ \A key \in SettingKeys :
                key \in FlagKeys(operand.keys) =>
                    /\ operand'.values[key] = operand.values[key]
                    /\ key \in FlagKeys(operand'.keys)
          /\ ( /\ operand'.last.op = "set"
               /\ operand'.last.key \notin FlagKeys(operand.keys)
               /\ Annotated(operand'.last.key, operand'.last.value).ok )
             => operand'.values[operand'.last.key]
                  = Annotated(operand'.last.key, operand'.last.value).v ]_vars

\* log_level was set to 10 by a flag, and the last call, set with 20 for
\* log_level, has left it at 10.
C21_Witness ==
    /\ pc = "settings"
    /\ "log_level" \in FlagKeys(operand.keys)
    /\ operand.values["log_level"] = "10"
    /\ operand.last = [op |-> "set", key |-> "log_level", value |-> "20", persistent |-> TRUE]
    /\ step = 2

\* The names recorded in the registry.
RecordedNames(all_modules) == { all_modules[k].k : k \in 1..Len(all_modules) }

\* The registry holds one instance for each entry built, under the entry's
\* resolved name, and an entry is built once.
OneInstanceEach ==
    /\ returned = [k \in 1..step |-> k]
    /\ Len(operand.all_modules) = step
    /\ \A k \in 1..step :
          \E r \in 1..Len(operand.all_modules) :
             /\ operand.all_modules[r] = Entry(ResolvedName(operand.configs[k]), k)
             /\ \A q \in 1..Len(operand.all_modules) :
                   operand.all_modules[q].k = operand.all_modules[r].k => q = r

\* C22: the registry maps each resolved name to one instance and each entry
\* is built once; building an entry whose resolved name is recorded raises
\* and leaves the registry as it was.
C22_Registry ==
    [][ pc = "create_module" =>
          /\ OneInstanceEach
          /\ OneInstanceEach'
          /\ IF ResolvedName(operand.configs[step + 1]) \in RecordedNames(operand.all_modules)
             THEN exc' = "ValueError" /\ operand'.all_modules = operand.all_modules
             ELSE exc' = "none" ]_vars

\* An entry without a name has been refused: its derived name is the name
\* an earlier entry gave itself.
C22_Witness ==
    /\ pc = "create_module"
    /\ exc = "ValueError"
    /\ step = 1
    /\ operand.configs[1].name = List(<<"debug", "_", "h1">>)
    /\ ~operand.configs[2].name.set
    /\ operand.all_modules = <<Entry(<<"debug", "_", "h1">>, 1)>>

\* The prefixed name of a validated task.
PrefixedName(k) ==
    operand.task_name_prefix \o TextOf(DGet(operand.task_confs[k].config.d, <<"name">>).d)

\* No two tasks created share a prefixed name, and the registry holds each
\* of them under its name.
TaskNamesDistinct ==
    /\ returned = [k \in 1..step |-> k]
    /\ \A j, k \in 1..step : PrefixedName(j) = PrefixedName(k) => j = k
    /\ operand.ALL_CLS = [k \in 1..step |-> Entry(<<"StreamletTask_">> \o PrefixedName(k), k)]

\* C23: no two tasks created share a prefixed name, across inputs and
\* repetitions; creating a task whose name exists raises and leaves the
\* registry with the first task.
C23_TaskNames ==
    [][ pc = "create_task" =>
          /\ TaskNamesDistinct
          /\ TaskNamesDistinct'
          /\ IF \E k \in 1..step : PrefixedName(k) = PrefixedName(step + 1)
             THEN exc' = "ValueError" /\ operand'.ALL_CLS = operand.ALL_CLS
             ELSE exc' = "none" ]_vars

\* The task "t0" of a second input has been refused: the first input's
\* repeated task "t${i}" had given that name to its first task.
C23_Witness ==
    /\ pc = "create_task"
    /\ exc = "ValueError"
    /\ step = 2
    /\ Len(operand.task_confs) = 3
    /\ operand.task_confs[3].input = 2
    /\ PrefixedName(1) = <<"p", "_", "t", "0">>
    /\ PrefixedName(3) = PrefixedName(1)
    /\ Len(operand.ALL_CLS) = 2

\* The type names registered in one category.
TypeNames(mapping) == { mapping[k].k : k \in 1..Len(mapping) }

\* C24: registering a class whose type name is registered in its category
\* raises and leaves the three mappings as they were; any other class is
\* registered under its type name in its category, whatever the other
\* categories hold.
C24_SameCategoryOnly ==
    [][ pc = "initialize" =>
          LET cls == operand.classes[step + 1]
              name == module_name(cls.name)
          IN IF name \in TypeNames(operand.modules[cls.base])
             THEN exc' = "ValueError" /\ operand'.modules = operand.modules
             ELSE /\ exc' = "none"
                  /\ operand'.modules[cls.base]
                       = Append(operand.modules[cls.base], Entry(name, cls))
                  /\ \A base \in {"input", "transform", "output"} \ {cls.base} :
                        operand'.modules[base] = operand.modules[base] ]_vars

\* "h" is an input and an output, and a second input class of the type
\* name "h" has been refused.
C24_Witness ==
    /\ pc = "initialize"
    /\ exc = "ValueError"
    /\ step = 2
    /\ operand.classes[3].base = "input"
    /\ operand.modules["input"] = <<Entry(<<"h">>, ModuleCls(<<"H", "I", "n", "p", "u", "t">>, "input"))>>
    /\ TypeNames(operand.modules["output"]) = { <<"h">> }

\* C25: a start that a validation failure ends exits with status 2, a start
\* that a missing file or another failure ends with status 1, and a start
\* in validate-only mode that nothing ends before on_init with status 0.
C25_ExitStatus ==
    /\ pc = "exited" =>
          /\ exc = "Invalid" => returned = <<2>>
          /\ exc \notin {"Invalid", "none"} => returned = <<1>>
          /\ exc = "none" => returned = <<0>> /\ operand.only_validate
    /\ pc = "check_broker_connection" => ~operand.only_validate

\* The same, for the starts whose env section has no variable that refers
\* to itself, directly or through another.
C25_HoldsWithoutSelfReference ==
    (operand.env.d \notin {<<Entry("A", <<Ref("A"), Lit("x")>>)>>,
                           <<Entry("A", <<Ref("B")>>), Entry("B", <<Ref("A"), Lit("x")>>)>>})
    => C25_ExitStatus

\* C26: a code transform with non-empty source is built only with
\* allow_exec enabled; with allow_exec disabled the construction of a flow
\* that reaches such a transform fails with an error, and no source is
\* compiled or executed.
C26_ExecOnlyWhenAllowed ==
    /\ \A k \in 1..Len(operand.built) :
          operand.built[k].code # "" => operand.allow_exec
    /\ ~operand.allow_exec =>
          /\ operand.compiled = <<>>
          /\ operand.executed = <<>>
          /\ \A k \in 1..Len(operand.built) : ~operand.built[k].binary.set
          /\ (\E k \in 1..Len(operand.section) :
                 /\ operand.section[k].src # ""
                 /\ \A j \in 1..(k - 1) : operand.section[j].src = ""
                 /\ Len(operand.built) >= k - 1)
             => \/ operand.error = "ValueError"
                \/ Len(operand.built) < Len(operand.section) /\ operand.error = "none"
          /\ ENABLED CallCodeTransform => \A k \in 1..Len(operand.section) :
                                             operand.section[k].src = ""

\* With allow_exec disabled, a flow whose second transform has source has
\* failed with ValueError after the first, sourceless one was built and
\* compiled nothing.
C26_Witness ==
    /\ ~operand.allow_exec
    /\ Len(operand.section) = 2
    /\ operand.section[2].src = "pass"
    /\ Len(operand.built) = 1
    /\ operand.error = "ValueError"
    /\ operand.compiled = <<>>

\* C27: when a call of the source, of a transform or of an output (or an
\* output's modifier) raises, last_module holds the name of that module;
\* the retry or failure handler finds that same name; and every attempt
\* starts with the record reset to "<None>".
C27_LastModule ==
    [][/\ pc' = "raised" /\ pc # "raised" =>
             last_module' = IF pc = "exec" THEN Input.name ELSE Head(pending).name
       /\ pc = "raised" /\ state' \in {"RETRYING", "FAILED"} =>
             last_module' = last_module
       /\ pc = "idle" /\ pc' = "exec" => last_module' = <<"<None>">>]_vars

\* A second attempt in which an output raised after the source and a
\* transform were called.
C27_Witness ==
    /\ pc = "raised"
    /\ retries >= 1
    /\ Len(calls) >= 3
    /\ calls[Len(calls)].kind = "output"
    /\ \E k \in 1..Len(calls) : calls[k].kind = "transform"
    /\ last_module = calls[Len(calls)].name
    /\ last_module # Input.name

\* The identifiers a sequence holds more than once.
Twice(ids) == { ids[i] : i \in { i \in 1..Len(ids) : \E j \in 1..Len(ids) : j # i /\ ids[j] = ids[i] } }

\* The runs no later call of StreamletMetrics can count: in the deque with
\* a time before run_timestamp, and neither counted nor kept as pending.
Lost ==
    { r \in operand.appended :
        /\ operand.at = "idle"
        /\ \E i \in 1..Len(operand.LAST_TASK_IDS) :
              /\ operand.LAST_TASK_IDS[i].t = r
              /\ operand.LAST_TASK_IDS[i].d < operand.run_timestamp
        /\ \A i \in 1..Len(operand.counted) : operand.counted[i] # r
        /\ \A i \in 1..Len(operand.pending) : operand.pending[i] # r }

\* C29: runs that start while StreamletMetrics reads the recent task
\* identifiers neither make its read fail nor make it count an identifier
\* twice or never.
C29_RingBuffer ==
    /\ operand.error = "none"
    /\ Twice(operand.counted) = {}
    /\ Twice(operand.task_ids) = {}
    /\ Lost = {}

\* The appends themselves are whole: the deque holds every started run
\* exactly once, under the time its before_start read.
C29_AppendsWhole ==
    /\ Twice([i \in 1..Len(operand.LAST_TASK_IDS) |-> operand.LAST_TASK_IDS[i].t]) = {}
    /\ { operand.LAST_TASK_IDS[i].t : i \in 1..Len(operand.LAST_TASK_IDS) } = operand.appended
    /\ \A i \in 1..Len(operand.LAST_TASK_IDS) :
          operand.LAST_TASK_IDS[i].d = operand.stamp[operand.LAST_TASK_IDS[i].t]

\* C30: a thread that reads or writes frame_filled or last_reset holds
\* rl_lock, no two threads are inside the locked block at once, and while
\* the counter is reset and the window start is not yet recorded no other
\* thread reads either; so whenever the lock is free the counter counts
\* what was sliced since last_reset.
C30_LimiterLocked ==
    /\ \A t \in 1..MaxCallers : operand.at[t] \in Locked => operand.rl_lock = t
    /\ \A t, u \in 1..MaxCallers :
          t # u /\ operand.at[u] \in Locked => operand.at[t] \notin Locked
    /\ operand.rl_lock = 0 =>
          \A t \in 1..MaxCallers : operand.at[t] \notin {"reset_counter", "reset_window"}
    /\ operand.frame_filled \in 0..operand.batch_size

\* A thread has reset the counter and not yet recorded the window start,
\* which is in the past, while the other waits for the lock with data.
C30_Witness ==
    /\ operand.at[1] = "reset_window"
    /\ operand.frame_filled = 0
    /\ operand.last_reset < operand.now
    /\ operand.at[2] = "while"
    /\ operand.data[2] > 0
    /\ operand.rl_lock = 1

\* Module k of the flow is enabled: its switch is on and, for an output,
\* outputs are not disabled as a whole.
SwitchedOn(k) ==
    /\ operand.all_modules[k].enabled
    /\ operand.all_modules[k].category = "output" => ~operand.disable_outputs

\* The positions in the log at which hook was invoked on module k.
Invoked(hook, k) ==
    { p \in 1..Len(operand.hooks) : operand.hooks[p] = <<hook, k>> }

\* C31: when the flow is ready, on_connect has been invoked exactly once on
\* every enabled module; an on_shutdown of any module comes after an
\* on_pre_shutdown of every enabled module; and no hook is invoked on a
\* disabled module.
C31_Hooks ==
    LET n == Len(operand.all_modules)
    IN /\ operand.ready =>
             \A k \in 1..n : SwitchedOn(k) =>
                Cardinality(Invoked("on_connect", k)) = 1
       /\ \A k \in 1..n : Cardinality(Invoked("on_connect", k)) <= 1
       /\ \A j \in 1..n : \A p \in Invoked("on_shutdown", j) :
             \A k \in 1..n : SwitchedOn(k) =>
                \E q \in Invoked("on_pre_shutdown", k) : q < p
       /\ \A k \in 1..n : ~SwitchedOn(k) =>
             \A hook \in {"on_connect", "on_pre_shutdown", "on_shutdown"} :
                Invoked(hook, k) = {}

\* A flow of an enabled module, an output disabled by disable_outputs and
\* an enabled module has exited after
\* all three hooks of the two enabled ones.
C31_Witness ==
    /\ Len(operand.all_modules) = 3
    /\ SwitchedOn(1)
    /\ ~SwitchedOn(2) /\ operand.all_modules[2].enabled
    /\ SwitchedOn(3)
    /\ operand.at = "exited"
    /\ operand.ready
    /\ Len(operand.hooks) = 6

\* C32: the counter stays between 0 and batch_size, and no more than
\* batch_size metrics are handed to _http_call between one recording of
\* the window start and the next.
C32_RateLimit ==
    /\ operand.frame_filled \in 0..operand.batch_size
    /\ operand.handed <= operand.batch_size

\* The counter's bound alone: no more than batch_size metrics are sliced
\* for sending between one reset of the counter and the next.
C32_CounterBounded ==
    operand.frame_filled \in 0..operand.batch_size

\* The slices of a sequence of slices, joined.
RECURSIVE Joined(_)
Joined(slices) ==
    IF slices = <<>> THEN <<>> ELSE Head(slices) \o Joined(Tail(slices))

\* The call has ended, and if it returned, the slices it sent are the
\* frame, cut into consecutive pieces.
MonitDone ==
    /\ operand.at \in {"returned", "raised"}
    /\ operand.at = "returned" => Joined(operand.sent) = operand.frame

\* C33: a call on a frame ends after finitely many requests, whatever the
\* batch size, and when it returns the slices it sent are consecutive,
\* disjoint and together the frame.
C33_SendsAll == <>MonitDone

\* The same for the positive batch sizes, with what was sent and what is
\* left making up the frame at every moment.
C33_HoldsForPositive ==
    /\ operand.batch_size >= 1 => <>MonitDone
    /\ [](Joined(operand.sent) \o operand.data = operand.frame)

\* The names of the outputs the routing accepts for the task, in the
\* flow's order.
AcceptedOutputOrder ==
    LET idx == { j \in 1..Len(outputs) :
                   accepts_from(outputs[j], Input.name, task.name, FALSE,
                                settings.disable_outputs) }
        RECURSIVE From(_)
        From(j) == IF j > Len(outputs) THEN <<>>
                   ELSE (IF j \in idx THEN <<outputs[j].name>> ELSE <<>>) \o From(j + 1)
    IN From(1)

\* C34: every attempt begins with no module called and no frame, its first
\* call is the source's, and the sinks it has invoked are the first of the
\* accepted outputs, each once, whatever an earlier attempt invoked; no run
\* has more than 1 + max_retries attempts, so no sink is invoked more often.
C34_Attempts ==
    [][/\ pc = "idle" /\ pc' = "exec" =>
             calls' = <<>> /\ static_data' = NoFrame /\ finished_data' = NoFrame
       /\ pc = "exec" /\ pc' # "exec" => calls' = <<Call("input", Input.name)>>
       /\ LET invoked == [i \in 1..Len(SelectSeq(calls', LAMBDA c : c.kind = "output")) |->
                            SelectSeq(calls', LAMBDA c : c.kind = "output")[i].name]
          IN /\ Len(invoked) <= Len(AcceptedOutputOrder)
             /\ invoked = SubSeq(AcceptedOutputOrder, 1, Len(invoked))
             /\ \A i, j \in 1..Len(invoked) : i # j => invoked[i] # invoked[j]
       /\ exec_count' <= 1 + max_retries]_vars

\* The last attempt a run may make, a retry, has invoked the first sink
\* again and failed at the second.
C34_Witness ==
    /\ pc = "raised"
    /\ exc = "error"
    /\ max_retries > 0
    /\ retries = max_retries
    /\ exec_count = 1 + max_retries
    /\ Called("output") = AcceptedOutputOrder
    /\ Len(AcceptedOutputOrder) = 2

\* The place of a transform in the configuration.
DeclaredAt(name) == CHOOSE i \in 1..Len(declared) : declared[i].name = name

\* C35: of two transforms of equal priority, the one declared first is the
\* first in flow.transforms and the first invoked in every attempt.
C35_StableOrder ==
    LET invoked == Called("transform")
        listed == [i \in 1..Len(transforms) |-> transforms[i].name]
    IN /\ \A i, j \in 1..Len(invoked) :
             i < j /\ DeclaredAs(invoked[i]).priority = DeclaredAs(invoked[j]).priority
             => DeclaredAt(invoked[i]) < DeclaredAt(invoked[j])
       /\ \A i, j \in 1..Len(listed) :
             i < j /\ DeclaredAs(listed[i]).priority = DeclaredAs(listed[j]).priority
             => DeclaredAt(listed[i]) < DeclaredAt(listed[j])

\* Two transforms of priority 5 have been invoked in the order of their
\* declaration, which is not the order of their names.
C35_Witness ==
    /\ Len(declared) = 2
    /\ declared[1].priority = 5
    /\ declared[2].priority = 5
    /\ declared[1].name = <<"s", "f">>
    /\ declared[2].name = <<"k", "m">>
    /\ Called("transform") = <<declared[1].name, declared[2].name>>

\* C36: every dispatch, whether a periodic schedule, a start in run-once
\* mode or an application by a hook, is of an enabled task of an enabled
\* input.
C36_OnlyEnabledDispatched ==
    \A d \in 1..Len(operand.dispatched) :
       LET i == operand.dispatched[d][2]
           k == operand.dispatched[d][3]
       IN operand.inputs[i].enabled /\ operand.inputs[i].tasks[k]

\* The same for the dispatches that register() makes.
C36_HoldsForRegister ==
    \A d \in 1..Len(operand.dispatched) :
       operand.dispatched[d][1] \in {"periodic", "delay"} =>
          /\ operand.inputs[operand.dispatched[d][2]].enabled
          /\ operand.inputs[operand.dispatched[d][2]].tasks[operand.dispatched[d][3]]

\* The extension document the next pass of the loop merges.
NextTemplate == operand.extends[Len(operand.extends) - step]

\* The merge of the next extension gives every key of it that the
\* configuration lacks, and whose value is of one of the kinds, the
\* extension's value.
AbsentKeysAdded(kinds) ==
    (pc = "extensions" /\ Truthy(NextTemplate)) =>
       \A i \in 1..Len(NextTemplate.d) :
          LET k == NextTemplate.d[i].k
              v == NextTemplate.d[i].v
          IN (~DHas(returned.d, k) /\ v.t \in kinds) =>
                /\ pc' # "raised"
                /\ DHas(returned'.d, k)
                /\ DGet(returned'.d, k) = v

\* C37: merging an extension that sets a key the configuration lacks gives
\* a configuration with that key and the extension's value, be it a scalar,
\* a mapping or a sequence.
C37_AbsentKeyAdded == [][AbsentKeysAdded({"num", "none", "map", "list"})]_vars

\* The same for scalars and mappings, in extensions that set no absent key
\* to a sequence.
C37_HoldsForScalarAndMapping ==
    [][pc = "extensions" =>
          ((\A i \in 1..Len(NextTemplate.d) :
               NextTemplate.d[i].v.t = "list" => DHas(returned.d, NextTemplate.d[i].k))
           => AbsentKeysAdded({"num", "none", "map"}))]_vars

\* The entry under validation sets both keys of an include/exclude pair.
SetsBoth ==
    \/ operand.value.filters["include_tasks"] # "absent"
       /\ operand.value.filters["exclude_tasks"] # "absent"
    \/ operand.value.filters["include_inputs"] # "absent"
       /\ operand.value.filters["exclude_inputs"] # "absent"

\* C38 as stated: a transform or output entry that sets both keys of a pair
\* is rejected.
C38_BothRejected ==
    (step = 1 /\ operand.value.category \in {"transform", "output"} /\ SetsBoth)
    => ~returned[1].ok

\* C38: a transform or output entry that sets both keys of a pair is
\* rejected, unless the module is disabled and skip_disabled_validation is
\* set, in which case the entry is accepted as it is.
C38_BothRejectedUnlessSkipped ==
    (step = 1 /\ operand.value.category \in {"transform", "output"} /\ SetsBoth)
    => IF operand.skip_disabled_validation /\ ~operand.value.enabled
       THEN returned[1] = [ok |-> TRUE, v |-> operand.value]
       ELSE ~returned[1].ok

\* An enabled output that sets include_tasks and, to null, exclude_tasks
\* has been rejected.
C38_Witness ==
    /\ step = 1
    /\ operand.value.category = "output"
    /\ operand.value.enabled
    /\ operand.value.filters["include_tasks"] = "list"
    /\ operand.value.filters["exclude_tasks"] = "null"
    /\ operand.value.filters["include_inputs"] = "absent"
    /\ operand.value.filters["exclude_inputs"] = "list"
    /\ ~returned[1].ok

\* C39: a call of Settings.initiate() leaves every setting that a flag has
\* set at the value it had.
C39_InitiateKeepsFlags ==
    [][ (pc = "settings" /\ operand'.last.op = "initiate") =>
          \A key \in SettingKeys :
             key \in FlagKeys(operand.keys) =>
                operand'.values[key] = operand.values[key] ]_vars

\* A call of Settings.initiate() leaves the value of a setting that a flag
\* has set as it was unless the value it now has is the one initiate takes
\* from the environment, and initiate leaves the persistent keys as they are.
C39_HoldsWithoutVariable ==
    [][ (pc = "settings" /\ operand'.last.op = "initiate") =>
          /\ operand'.keys = operand.keys
          /\ \A key \in SettingKeys :
                key \in FlagKeys(operand.keys) =>
                   \/ operand'.values[key] = operand.values[key]
                   \/ \E environ \in SettingEnvirons :
                         /\ environ[key].set
                         /\ operand'.values[key] = Annotated(key, environ[key].items).v ]_vars

\* The times a run's identifier was appended.
TimesAppended(r) == Cardinality({ k \in 1..Len(operand.log) : operand.log[k] = r })

\* C40: the buffer never holds more than task_id_queue_size entries, it
\* holds the identifiers appended last, in the order they were appended,
\* and the identifier of a run has been appended once from the start of the
\* run's first attempt on, retries included, and never before.
C40_RingBuffer ==
    (pc = "queue" /\ operand.LAST_TASK_IDS.set) =>
       LET held == operand.LAST_TASK_IDS.items
           n == Len(operand.log)
           m == Len(held)
       IN /\ m <= operand.size
          /\ m = (IF n < operand.size THEN n ELSE operand.size)
          /\ \A k \in 1..m : held[k].t = operand.log[n - m + k]
          /\ \A r \in 1..MaxStarted :
                TimesAppended(r) =
                   (IF operand.at[r] = "queued" /\ operand.retries[r] = 0 THEN 0 ELSE 1)

\* Three runs have started on a buffer of two entries, the first of them
\* has been evicted, and a retry of a run is running.
C40_Witness ==
    /\ pc = "queue"
    /\ operand.size = 2
    /\ Len(operand.log) = 3
    /\ Len(operand.LAST_TASK_IDS.items) = 2
    /\ operand.LAST_TASK_IDS.items[1].t = operand.log[2]
    /\ \E r \in 1..MaxStarted : operand.at[r] = "running" /\ operand.retries[r] = 1

====
